---- MODULE Spec2Model ----
(***************************************************************************)
(* SmartRead: the content-extraction and in-document anchoring subsystem.  *)
(*                                                                         *)
(* Two variants of the App component are modelled side by side:            *)
(*   "simple" : src/App.tsx            (direct rendering, block collection) *)
(*   "iframe" : src/unnamed/part_000   (isolated rendering, whole region)   *)
(*                                                                         *)
(* A JavaScript string is a sequence of one-character strings.  A document *)
(* is the list of its nodes in document order (preorder), each node with   *)
(* its depth; the html root is implicit, head and body have depth 0.       *)
(***************************************************************************)
EXTENDS Integers, Sequences, FiniteSets, TLC

VARIABLES
    variant,    \* which App component is running: "simple" or "iframe"
    \* the synchronous part of handleLoadArticle, statement by statement
    ppc,        \* position inside it
    praw,       \* the local htmlContent, Null where a behaviour starts after the parse
    pdoc,       \* the local `doc` of handleLoadArticle (the ParsedDocument)
    pbase,      \* the local `urlInput` the handler closed over
    proot,      \* the local contentRoot: its place in pdoc, 0 before it is set
    pblocks,    \* the local textBlocks (App.tsx 114), once computed
    ptext,      \* the local extractedText / cleanText, once computed
    fetches,    \* the fetch calls the load made, with how each one settled
    \* the rendered document and handleScrollToQuote
    dom,        \* the live rendered document: its nodes in document order
    nextNid,    \* the identity the next created node gets
    timers,     \* the pending setTimeout callbacks, oldest first
    alerts,     \* how many times alert() was called
    scrolled,   \* the node of the last scrollIntoView call, 0 before any
    selection,  \* the native selection window.find left, <<>> when none
    orphans,    \* nodes of pending callbacks cut from the document, parentless
    hung,       \* a callback entered a loop that never ends
    invCount,   \* how many times handleScrollToQuote was called
    anchorArg,  \* the argument of the last handleScrollToQuote call
    blk,        \* the first block whose text held the last query, 0 if none
    before,     \* the text content of that block before the call
    mounted,    \* the document in the reader: the articleContent it was rendered
                \* from (simple variant), how many documents were mounted so
                \* far, how many pending callbacks an earlier document started,
                \* the contextmenu listeners on the embedded document and
                \* those that ran for the last contextmenu event in it
    \* the React state of the App component
    urlInput,         \* the URL field
    loadingState,     \* LoadingState (types.ts 27-33)
    articleText,      \* articleContent (App.tsx 29) / articleText (part_000 31)
    iframeHtml,       \* part_000 32; stays empty in the simple variant
    analysis,         \* <<>> for null, else <<the text it was computed from>>
    dictionary,       \* FALSE for null, TRUE once a lookup result is shown
    chatHistory,      \* the messages, oldest first
    chatInput,        \* the chat field
    selectedTextData, \* NoData for null, else the {word, context} pair
    contextMenuPos,   \* FALSE for null, TRUE for a position
    menuEvent,        \* the last contextmenu event in the article: the selection
                      \* it came with, and whether preventDefault was called
    selectedImage,    \* FALSE for null, TRUE for an uploaded image
    imageAnalysisResult, \* FALSE for '', TRUE for a result
    \* the asynchronous calls in flight
    loads,      \* the calls of handleLoadArticle, in the order they started
    requests,   \* the other calls awaiting a collaborator, in starting order
    handed,     \* every article text handed to analyzeArticle or chatWithGemini
    prompt      \* the contents of the last generateContent call chatWithGemini
                \* made, NoPrompt before any

pipeVars == <<ppc, praw, pdoc, pbase, proot, pblocks, ptext, fetches>>
anchorVars == <<dom, nextNid, timers, alerts, scrolled, selection, orphans, hung,
                invCount, anchorArg, blk, before, mounted>>
appVars == <<urlInput, loadingState, articleText, iframeHtml, analysis, dictionary,
             chatHistory, chatInput, selectedTextData, contextMenuPos, menuEvent,
             selectedImage, imageAnalysisResult, loads, requests, handed, prompt>>
vars == <<variant, pipeVars, anchorVars, appVars>>

Variants == {"simple", "iframe"}

(***************************************************************************)
(* Strings                                                                 *)
(***************************************************************************)
\* the value of a missing attribute (getAttribute returns null)
Null == <<"NULL">>

Rep(c, n) == [i \in 1..n |-> c]

\* s.substring(from - 1, to) in 1-based, inclusive positions
Sub(s, from, to) == IF from > to THEN <<>> ELSE SubSeq(s, from, to)

\* does t occur in s at position i (1-based)?
OccursAt(s, t, i) ==
    /\ i >= 1
    /\ i + Len(t) - 1 <= Len(s)
    /\ \A k \in 1..Len(t) : s[i + k - 1] = t[k]

\* s.indexOf(t) + 1, and 0 when t does not occur (the empty string occurs at 1)
IndexOf(s, t) ==
    LET hits == {i \in 1..(Len(s) - Len(t) + 1) : OccursAt(s, t, i)}
    IN  IF hits = {} THEN 0 ELSE CHOOSE i \in hits : \A j \in hits : i <= j

\* s.includes(t)
Includes(s, t) == IndexOf(s, t) # 0

(***************************************************************************)
(* Documents                                                               *)
(***************************************************************************)
\* An element's attributes are the list of its <<name, value>> pairs, in
\* source order.
Elem(tag, depth) == [tag |-> tag, depth |-> depth, text |-> <<>>, attrs |-> <<>>]
ElemA(tag, depth, attrs) == [tag |-> tag, depth |-> depth, text |-> <<>>, attrs |-> attrs]
Text(s, depth) == [tag |-> "#text", depth |-> depth, text |-> s, attrs |-> <<>>]

\* el.getAttribute(name)
GetAttr(n, name) ==
    LET js == {j \in 1..Len(n.attrs) : n.attrs[j][1] = name}
    IN  IF js = {} THEN Null ELSE n.attrs[CHOOSE j \in js : \A k \in js : j <= k][2]

IsElement(n) == n.tag # "#text"

\* elements whose content the HTML parser reads as raw text
RawTextTags == {"script", "style", "iframe"}
\* elements that never have children
VoidTags == {"embed", "img", "link", "br"}

\* doc.querySelectorAll(sel).forEach(el => el.remove()) for a set of tag
\* selectors: every matching element leaves the tree with its whole subtree.
\* `skip` is the depth of the removed ancestor being skipped, or -1.
RECURSIVE RemoveFrom(_, _, _, _)
RemoveFrom(nodes, tags, i, skip) ==
    IF i > Len(nodes) THEN <<>>
    ELSE LET n == nodes[i] IN
         IF skip >= 0 /\ n.depth > skip
           THEN RemoveFrom(nodes, tags, i + 1, skip)
         ELSE IF IsElement(n) /\ n.tag \in tags
           THEN RemoveFrom(nodes, tags, i + 1, n.depth)
         ELSE <<n>> \o RemoveFrom(nodes, tags, i + 1, -1)

RemoveAll(nodes, tags) == RemoveFrom(nodes, tags, 1, -1)

(***************************************************************************)
(* More strings                                                            *)
(***************************************************************************)
Whitespace == {" ", "\n", "\t"}

RECURSIVE TrimStart(_)
TrimStart(s) == IF s # <<>> /\ s[1] \in Whitespace THEN TrimStart(Tail(s)) ELSE s

RECURSIVE TrimEnd(_)
TrimEnd(s) ==
    IF s # <<>> /\ s[Len(s)] \in Whitespace THEN TrimEnd(SubSeq(s, 1, Len(s) - 1)) ELSE s

\* s.trim()
Trim(s) == TrimEnd(TrimStart(s))

\* s.split(sep): with the empty separator, the characters of s
RECURSIVE Split(_, _)
Split(s, sep) ==
    IF sep = <<>> THEN [i \in 1..Len(s) |-> <<s[i]>>]
    ELSE LET idx == IndexOf(s, sep)
         IN  IF idx = 0 THEN <<s>>
             ELSE <<Sub(s, 1, idx - 1)>> \o Split(Sub(s, idx + Len(sep), Len(s)), sep)

\* parts.join(glue)
RECURSIVE Join(_, _)
Join(parts, glue) ==
    IF parts = <<>> THEN <<>>
    ELSE IF Len(parts) = 1 THEN parts[1]
    ELSE LET h == Len(parts) \div 2
         IN  Join(SubSeq(parts, 1, h), glue) \o glue
                \o Join(SubSeq(parts, h + 1, Len(parts)), glue)

\* s.replace(pat, rep) with a string pattern: the first occurrence only.
\* (The $-patterns of a replacement string are not modelled: no text of the
\* model holds a "$".)
ReplaceFirst(s, pat, rep) ==
    LET idx == IndexOf(s, pat)
    IN  IF idx = 0 THEN s
        ELSE Sub(s, 1, idx - 1) \o rep \o Sub(s, idx + Len(pat), Len(s))

\* the strings of a list, one after the other
RECURSIVE Concat(_)
Concat(ss) ==
    IF ss = <<>> THEN <<>>
    ELSE IF Len(ss) = 1 THEN ss[1]
    ELSE LET h == Len(ss) \div 2
         IN  Concat(SubSeq(ss, 1, h)) \o Concat(SubSeq(ss, h + 1, Len(ss)))

(***************************************************************************)
(* HTML serialisation (the innerHTML getter)                               *)
(***************************************************************************)
EscapeTextChar(c) ==
    CASE c = "&" -> <<"&", "a", "m", "p", ";">>
      [] c = "<" -> <<"&", "l", "t", ";">>
      [] c = ">" -> <<"&", "g", "t", ";">>
      [] OTHER -> <<c>>

EscapeAttrChar(c) ==
    CASE c = "&" -> <<"&", "a", "m", "p", ";">>
      [] c = "\"" -> <<"&", "q", "u", "o", "t", ";">>
      [] OTHER -> <<c>>

EscapeText(s) == Concat([i \in 1..Len(s) |-> EscapeTextChar(s[i])])
EscapeAttr(s) == Concat([i \in 1..Len(s) |-> EscapeAttrChar(s[i])])

\* the tag names of the model, as characters
TagTable ==
    << <<"p", <<"p">>>>,
       <<"b", <<"b">>>>,
       <<"a", <<"a">>>>,
       <<"span", <<"s", "p", "a", "n">>>>,
       <<"img", <<"i", "m", "g">>>>,
       <<"div", <<"d", "i", "v">>>>,
       <<"article", <<"a", "r", "t", "i", "c", "l", "e">>>>,
       <<"main", <<"m", "a", "i", "n">>>>,
       <<"nav", <<"n", "a", "v">>>>,
       <<"h1", <<"h", "1">>>>,
       <<"li", <<"l", "i">>>>,
       <<"link", <<"l", "i", "n", "k">>>>,
       <<"style", <<"s", "t", "y", "l", "e">>>>,
       <<"script", <<"s", "c", "r", "i", "p", "t">>>>,
       <<"iframe", <<"i", "f", "r", "a", "m", "e">>>>,
       <<"object", <<"o", "b", "j", "e", "c", "t">>>>,
       <<"embed", <<"e", "m", "b", "e", "d">>>>,
       <<"head", <<"h", "e", "a", "d">>>>,
       <<"body", <<"b", "o", "d", "y">>>>,
       <<"html", <<"h", "t", "m", "l">>>>,
       <<"br", <<"b", "r">>>> >>

\* the entry of column `to` in the row of TagTable whose column `from` is key
TagEntry(tbl, from, to, key, other) ==
    LET js == {j \in 1..Len(tbl) : tbl[j][from] = key}
    IN  IF js = {} THEN other ELSE tbl[CHOOSE j \in js : TRUE][to]

TagChars(tag) == TagEntry(TagTable, 1, 2, tag, <<"?">>)

\* a tag name the model has no element for gives the element "unknown"
TagOfChars(cs) == TagEntry(TagTable, 2, 1, cs, "unknown")

SerializeAttrs(attrs) ==
    Concat([j \in 1..Len(attrs) |->
              <<" ">> \o attrs[j][1] \o <<"=", "\"">> \o EscapeAttr(attrs[j][2]) \o <<"\"">>])

StartTag(n) == <<"<">> \o TagChars(n.tag) \o SerializeAttrs(n.attrs) \o <<">">>
EndTag(tag) == <<"<", "/">> \o TagChars(tag) \o <<">">>

\* the end tags of the open elements (innermost last in `open`) at depth >= d
RECURSIVE CloseTo(_, _)
CloseTo(open, d) ==
    IF open # <<>> /\ open[Len(open)].depth >= d
      THEN EndTag(open[Len(open)].tag) \o CloseTo(SubSeq(open, 1, Len(open) - 1), d)
      ELSE <<>>

RECURSIVE KeepBelow(_, _)
KeepBelow(open, d) ==
    IF open # <<>> /\ open[Len(open)].depth >= d
      THEN KeepBelow(SubSeq(open, 1, Len(open) - 1), d)
      ELSE open

\* the serialisation of a list of nodes in document order
RECURSIVE SerializeFrom(_, _, _)
SerializeFrom(nodes, i, open) ==
    IF i > Len(nodes) THEN CloseTo(open, 0)
    ELSE LET n == nodes[i]
             from(closing, rest) ==
                 IF IsElement(n)
                   THEN closing \o StartTag(n) \o
                        SerializeFrom(nodes, i + 1,
                            IF n.tag \in VoidTags THEN rest ELSE Append(rest, n))
                   ELSE closing \o
                        (IF rest # <<>> /\ rest[Len(rest)].tag \in RawTextTags
                            THEN n.text ELSE EscapeText(n.text)) \o
                        SerializeFrom(nodes, i + 1, rest)
         IN  from(CloseTo(open, n.depth), KeepBelow(open, n.depth))

Serialize(nodes) == SerializeFrom(nodes, 1, <<>>)

(***************************************************************************)
(* HTML parsing (the innerHTML setter): the tokenizer and tree builder of  *)
(* the HTML fragment parser, for the markup the model can produce: start   *)
(* and end tags, double-quoted, single-quoted and unquoted attributes, the *)
(* character references the serialiser writes, and text.  A tag name the   *)
(* model has no element for parses to the element "unknown".               *)
(***************************************************************************)
Letters ==
    {"a", "b", "c", "d", "e", "f", "g", "h", "i", "j", "k", "l", "m", "n", "o",
     "p", "q", "r", "s", "t", "u", "v", "w", "x", "y", "z"}

\* the first position >= i of s holding a character of cs, or Len(s) + 1
\* (FindIn searches lo..hi by halves and answers hi + 1 when it finds none)
RECURSIVE FindIn(_, _, _, _)
FindIn(s, lo, hi, cs) ==
    IF lo > hi THEN lo
    ELSE IF lo = hi THEN (IF s[lo] \in cs THEN lo ELSE lo + 1)
    ELSE LET mid == (lo + hi) \div 2
             l == FindIn(s, lo, mid, cs)
         IN  IF l <= mid THEN l ELSE FindIn(s, mid + 1, hi, cs)

FindChar(s, i, cs) == IF i > Len(s) THEN i ELSE FindIn(s, i, Len(s), cs)

\* the first position >= i of s holding no whitespace and no "/"
RECURSIVE SkipSpace(_, _)
SkipSpace(s, i) ==
    IF i <= Len(s) /\ s[i] \in (Whitespace \cup {"/"}) THEN SkipSpace(s, i + 1) ELSE i

\* the first position >= i of s holding no whitespace
RECURSIVE SkipWs(_, _)
SkipWs(s, i) == IF i <= Len(s) /\ s[i] \in Whitespace THEN SkipWs(s, i + 1) ELSE i

\* a character reference at position i of s (s[i] = "&"): <<text, next position>>
CharRef(s, i) ==
    LET semi(j) == IF j <= Len(s) /\ s[j] = ";" THEN j + 1 ELSE j
    IN  CASE OccursAt(s, <<"&", "a", "m", "p">>, i) -> <<"&", semi(i + 4)>>
          [] OccursAt(s, <<"&", "l", "t">>, i) -> <<"<", semi(i + 3)>>
          [] OccursAt(s, <<"&", "g", "t">>, i) -> <<">", semi(i + 3)>>
          [] OccursAt(s, <<"&", "q", "u", "o", "t">>, i) -> <<"\"", semi(i + 5)>>
          [] OTHER -> <<"&", i + 1>>

\* the text of an attribute value or of character data, references decoded
\* (a reference holds no "&" after its first character, so every "&" of s
\* starts one; the other characters of a reference yield nothing)
Decode(s) ==
    LET inRef(i) == \E j \in 1..(i - 1) : s[j] = "&" /\ CharRef(s, j)[2] > i
    IN  Concat([i \in 1..Len(s) |->
                  IF s[i] = "&" THEN <<CharRef(s, i)[1]>>
                  ELSE IF inRef(i) THEN <<>>
                  ELSE <<s[i]>>])

HasAttr(attrs, name) == \E j \in 1..Len(attrs) : attrs[j][1] = name

\* The attributes of a tag, read from position i (after the tag name):
\* [attrs, next], next the position after the closing ">", or 0 when the
\* input ends inside the tag (the tag is then dropped).
RECURSIVE ParseAttrs(_, _, _)
ParseAttrs(s, i0, attrs) ==
    LET none == [attrs |-> attrs, next |-> 0]
        add(name, v) == IF HasAttr(attrs, name) THEN attrs ELSE Append(attrs, <<name, v>>)
        \* the value starts at v, after the "="
        value(name, v) ==
            IF v > Len(s) THEN none
            ELSE IF s[v] \in {"\"", "'"}
              THEN LET quoted(close) ==
                           IF close > Len(s) THEN none
                           ELSE ParseAttrs(s, close + 1,
                                    add(name, Decode(Sub(s, v + 1, close - 1))))
                   IN  quoted(FindChar(s, v + 1, {s[v]}))
            ELSE IF s[v] = ">" THEN ParseAttrs(s, v, add(name, <<>>))
            ELSE LET bare(close) ==
                         ParseAttrs(s, close, add(name, Decode(Sub(s, v, close - 1))))
                 IN  bare(FindChar(s, v, Whitespace \cup {">"}))
        \* the name ends before nameEnd; eq is the next position holding no space
        named(name, nameEnd, eq) ==
            IF eq > Len(s) THEN none
            ELSE IF s[eq] # "=" THEN ParseAttrs(s, nameEnd, add(name, <<>>))
            ELSE value(name, SkipWs(s, eq + 1))
        at(i) ==
            IF i > Len(s) THEN none
            ELSE IF s[i] = ">" THEN [attrs |-> attrs, next |-> i + 1]
            ELSE LET ends(nameEnd) == named(Sub(s, i, nameEnd - 1), nameEnd, SkipWs(s, nameEnd))
                 IN  ends(FindChar(s, i + 1, Whitespace \cup {"=", "/", ">"}))
    IN  at(SkipSpace(s, i0))

\* does the stack of open tag names hold the name?
OpenHas(stack, name) == \E j \in 1..Len(stack) : stack[j] = name

\* the stack after the end tag of `name`: popped through its last occurrence
RECURSIVE PopTo(_, _)
PopTo(stack, name) ==
    IF stack[Len(stack)] = name THEN SubSeq(stack, 1, Len(stack) - 1)
    ELSE PopTo(SubSeq(stack, 1, Len(stack) - 1), name)

\* character data cs arrives with `stack` open: it joins the last node when
\* that is a text node child of the current element, else starts a text node
AddChars(acc, stack, cs) ==
    IF acc # <<>> /\ acc[Len(acc)].tag = "#text" /\ acc[Len(acc)].depth = Len(stack) + 1
      THEN [acc EXCEPT ![Len(acc)].text = @ \o cs]
      ELSE Append(acc, Text(cs, Len(stack) + 1))

RECURSIVE ParseFrom(_, _, _, _)
ParseFrom(s, i, stack, acc) ==
    IF i > Len(s) THEN acc
    ELSE IF s[i] = "<" /\ i < Len(s) /\ s[i + 1] \in Letters
      THEN LET start(tag, at) ==
                   IF at.next = 0 THEN acc
                   ELSE ParseFrom(s, at.next,
                            IF tag \in VoidTags THEN stack ELSE Append(stack, tag),
                            Append(acc, ElemA(tag, Len(stack) + 1, at.attrs)))
               named(nameEnd) ==
                   start(TagOfChars(Sub(s, i + 1, nameEnd - 1)), ParseAttrs(s, nameEnd, <<>>))
           IN  named(FindChar(s, i + 1, Whitespace \cup {"/", ">"}))
    ELSE IF s[i] = "<" /\ i + 1 < Len(s) /\ s[i + 1] = "/" /\ s[i + 2] \in Letters
      THEN LET end(tag, close) ==
                   IF close > Len(s) THEN acc
                   ELSE ParseFrom(s, close + 1,
                            IF OpenHas(stack, tag) THEN PopTo(stack, tag) ELSE stack, acc)
               named(nameEnd) ==
                   end(TagOfChars(Sub(s, i + 2, nameEnd - 1)), FindChar(s, nameEnd, {">"}))
           IN  named(FindChar(s, i + 2, Whitespace \cup {"/", ">"}))
    ELSE IF s[i] = "<" /\ i < Len(s) /\ s[i + 1] = "/"
      THEN \* "</" before anything else: a bogus comment, up to the next ">"
           LET bogus(close) ==
                   IF close > Len(s) THEN acc ELSE ParseFrom(s, close + 1, stack, acc)
           IN  bogus(FindChar(s, i + 2, {">"}))
    ELSE IF s[i] = "&"
      THEN LET ref(r) == ParseFrom(s, r[2], stack, AddChars(acc, stack, <<r[1]>>))
           IN  ref(CharRef(s, i))
    ELSE \* a run of plain characters, up to the next "<" or "&"
         LET run(runEnd) ==
                 ParseFrom(s, runEnd, stack, AddChars(acc, stack, Sub(s, i, runEnd - 1)))
         IN  run(FindChar(s, i + 1, {"<", "&"}))

\* the nodes an HTML string parses to, in document order, depths from 1
ParseHtml(s) == ParseFrom(s, 1, <<>>, <<>>)

(***************************************************************************)
(* The live rendered document.  Node 1 is the root the locator searches    *)
(* (articleRef.current in App.tsx, the iframe document's body in           *)
(* part_000), at depth 0.  Every node has an identity, nid, which a        *)
(* callback that closed over the node keeps.                               *)
(***************************************************************************)
Live(n, nid, up) ==
    [nid |-> nid, tag |-> n.tag, depth |-> n.depth + up, text |-> n.text, attrs |-> n.attrs]

\* nodes just created from markup, under an element of depth `up`
WithNids(nodes, base, up) == [i \in 1..Len(nodes) |-> Live(nodes[i], base + i - 1, up)]

\* the index of the last node of the subtree of node e
RECURSIVE SubtreeEnd(_, _, _)
SubtreeEnd(d, e, j) ==
    IF j < Len(d) /\ d[j + 1].depth > d[e].depth THEN SubtreeEnd(d, e, j + 1) ELSE j

Children(d, e) == Sub(d, e + 1, SubtreeEnd(d, e, e))

\* the index of the node with identity nid, 0 when it is not in the document
IndexOfNid(d, nid) ==
    IF \E i \in 1..Len(d) : d[i].nid = nid
      THEN CHOOSE i \in 1..Len(d) : d[i].nid = nid
      ELSE 0

\* node.parentElement, as an index
ParentIndex(d, i) ==
    CHOOSE j \in 1..(i - 1) :
        /\ d[j].depth = d[i].depth - 1
        /\ \A k \in (j + 1)..(i - 1) : d[k].depth >= d[i].depth

\* el.textContent
TextOf(nodes) == Concat([i \in 1..Len(nodes) |-> nodes[i].text])
TextContent(d, e) == TextOf(Children(d, e))

\* el.innerHTML
InnerHTML(d, e) == Serialize(Children(d, e))

\* el.innerHTML = html
SetInnerHTML(d, e, html, base) ==
    Sub(d, 1, e) \o WithNids(ParseHtml(html), base, d[e].depth)
                 \o Sub(d, SubtreeEnd(d, e, e) + 1, Len(d))

\* doc.getElementById(id): the first such element in document order, or 0
GetElementById(d, id) ==
    LET js == {j \in 1..Len(d) : IsElement(d[j]) /\ GetAttr(d[j], <<"i", "d">>) = id}
    IN  IF js = {} THEN 0 ELSE CHOOSE j \in js : \A k \in js : j <= k

(***************************************************************************)
(* 4.1 Sanitizer                                                           *)
(***************************************************************************)
\* App.tsx: the list the simple variant removes, tag by tag
irrelevantTags ==
    <<"script", "style", "noscript", "iframe", "svg", "nav", "footer",
      "header", "aside", "form", "ads", "button">>

\* part_000: the selector list 'script, iframe, object, embed'
sanitizeSelector == {"script", "iframe", "object", "embed"}

\* irrelevantTags.forEach(tag => doc.querySelectorAll(tag).forEach(el => el.remove()))
RECURSIVE RemoveEach(_, _, _)
RemoveEach(nodes, tagList, k) ==
    IF k > Len(tagList) THEN nodes
    ELSE RemoveEach(RemoveAll(nodes, {tagList[k]}), tagList, k + 1)

Sanitize(v, nodes) ==
    IF v = "simple" THEN RemoveEach(nodes, irrelevantTags, 1)
                    ELSE RemoveAll(nodes, sanitizeSelector)

(***************************************************************************)
(* 4.2 Content root and text extraction                                    *)
(***************************************************************************)
\* a CSS selector of the forms the program uses: tag, .class, #id
TagSel(t) == [kind |-> "tag", name |-> t]
ClassSel(c) == [kind |-> "class", name |-> c]
IdSel(i) == [kind |-> "id", name |-> i]

\* the whitespace-separated tokens of a string
Tokens(s) ==
    LET ends == {ij \in (1..Len(s)) \X (1..Len(s)) :
                    /\ ij[1] <= ij[2]
                    /\ \A k \in ij[1]..ij[2] : s[k] \notin Whitespace
                    /\ (ij[1] = 1 \/ s[ij[1] - 1] \in Whitespace)
                    /\ (ij[2] = Len(s) \/ s[ij[2] + 1] \in Whitespace)}
    IN  {Sub(s, ij[1], ij[2]) : ij \in ends}

Content == <<"c", "o", "n", "t", "e", "n", "t">>
PostBody == <<"p", "o", "s", "t", "-", "b", "o", "d", "y">>
ClassAttr == <<"c", "l", "a", "s", "s">>
IdAttr == <<"i", "d">>

Matches(n, sel) ==
    /\ IsElement(n)
    /\ CASE sel.kind = "tag" -> n.tag = sel.name
         [] sel.kind = "class" ->
                GetAttr(n, ClassAttr) # Null /\ sel.name \in Tokens(GetAttr(n, ClassAttr))
         [] sel.kind = "id" -> GetAttr(n, IdAttr) = sel.name

\* doc.querySelector(sel): the first match in document order, or 0
QuerySelector(doc, sel) ==
    LET js == {j \in 1..Len(doc) : Matches(doc[j], sel)}
    IN  IF js = {} THEN 0 ELSE CHOOSE j \in js : \A k \in js : j <= k

\* App.tsx 106-111, part_000 153-156: the selectors tried, in order
RootSelectors(v) ==
    IF v = "simple"
      THEN <<TagSel("article"), TagSel("main"), ClassSel(Content), IdSel(Content),
             ClassSel(PostBody)>>
      ELSE <<TagSel("article"), TagSel("main"), ClassSel(Content)>>

BodyIndex(doc) == CHOOSE i \in 1..Len(doc) : doc[i].tag = "body" /\ doc[i].depth = 0
HeadIndex(doc) == CHOOSE i \in 1..Len(doc) : doc[i].tag = "head" /\ doc[i].depth = 0

\* the first element, in document order, that matches any of the selectors
ContentRoot_mut(v, doc) ==
    LET sels == RootSelectors(v)
        js == {j \in 1..Len(doc) : \E k \in 1..Len(sels) : Matches(doc[j], sels[k])}
    IN  IF js = {} THEN BodyIndex(doc) ELSE CHOOSE j \in js : \A k \in js : j <= k

\* a || b || ... || doc.body
ContentRoot(v, doc) ==
    LET sels == RootSelectors(v)
        ks == {k \in 1..Len(sels) : QuerySelector(doc, sels[k]) # 0}
    IN  IF ks = {} THEN BodyIndex(doc)
        ELSE QuerySelector(doc, sels[CHOOSE k \in ks : \A m \in ks : k <= m])

\* App.tsx 114: 'p, h1, h2, h3, h4, h5, h6, li, blockquote'
BlockTags == {"p", "h1", "h2", "h3", "h4", "h5", "h6", "li", "blockquote"}

\* App.tsx 116: a block is kept when its trimmed text is longer than this
NoiseThreshold == 40

\* App.tsx 120 and part_000 162: the least length of an article text
MinTextSimple == 200
MinTextIframe == 100

\* App.tsx 92, part_000 125: the least length of the fetched markup
MinHtmlLength == 50

\* the blocks without the noise filter: every block's text is kept
TextBlocks_mut(doc, root) ==
    LET inside == [k \in 1..(SubtreeEnd(doc, root, root) - root) |-> root + k]
        blocks == SelectSeq(inside, LAMBDA i : doc[i].tag \in BlockTags)
    IN  [k \in 1..Len(blocks) |-> Trim(TextContent(doc, blocks[k]))]

\* App.tsx 114-116: the trimmed texts of the blocks under the root, in
\* document order, without those the noise filter drops
TextBlocks(doc, root) ==
    LET inside == [k \in 1..(SubtreeEnd(doc, root, root) - root) |-> root + k]
        blocks == SelectSeq(inside, LAMBDA i : doc[i].tag \in BlockTags)
        texts == [k \in 1..Len(blocks) |-> Trim(TextContent(doc, blocks[k]))]
    IN  SelectSeq(texts, LAMBDA t : Len(t) > NoiseThreshold)

\* App.tsx 118
ExtractSimple(doc) == Join(TextBlocks(doc, ContentRoot("simple", doc)), <<"\n", "\n">>)

\* s.replace(/\s+/g, ' ')
CollapseWs(s) ==
    Concat([i \in 1..Len(s) |->
              IF s[i] \notin Whitespace THEN <<s[i]>>
              ELSE IF i > 1 /\ s[i - 1] \in Whitespace THEN <<>>
              ELSE <<" ">>])

\* part_000 158-160
ExtractIframe(doc) == Trim(CollapseWs(TextContent(doc, ContentRoot("iframe", doc))))

Extract(v, doc) == IF v = "simple" THEN ExtractSimple(doc) ELSE ExtractIframe(doc)

MinText(v) == IF v = "simple" THEN MinTextSimple ELSE MinTextIframe

\* the comparison with its boundary moved: the minimum length itself fails
TooShort_mut(v, text) == Len(text) <= MinText(v)

\* App.tsx 120, part_000 162: extractedText.length < minimum
TooShort(v, text) == Len(text) < MinText(v)

(***************************************************************************)
(* 4.3 rewriteUrls (part_000 60-87)                                        *)
(***************************************************************************)
StartsWith(s, pre) == OccursAt(s, pre, 1)

HttpsScheme == <<"h", "t", "t", "p", "s", ":">>
HttpScheme == <<"h", "t", "t", "p", ":">>

\* the special scheme an absolute URL starts with, with its ":", or <<>>
SchemeOf(u) ==
    IF StartsWith(u, HttpsScheme \o <<"/", "/">>) THEN HttpsScheme
    ELSE IF StartsWith(u, HttpScheme \o <<"/", "/">>) THEN HttpScheme
    ELSE <<>>

\* does u start with the scheme of a URL that is not http or https
\* (letters, then ":")?
HasOtherScheme(u) ==
    LET colon == FindChar(u, 1, {":"})
    IN  /\ SchemeOf(u) = <<>>
        /\ colon > 1 /\ colon <= Len(u)
        /\ \A k \in 1..(colon - 1) : u[k] \in Letters

\* the parts of "path?query#fragment"
PathOf(r) == Sub(r, 1, FindChar(r, 1, {"?", "#"}) - 1)
QueryOf(r) ==
    LET q == FindChar(r, 1, {"?", "#"})
    IN  IF q <= Len(r) /\ r[q] = "?" THEN Sub(r, q, FindChar(r, q, {"#"}) - 1) ELSE <<>>
FragmentOf(r) == Sub(r, FindChar(r, 1, {"#"}), Len(r))

\* the path without "." and ".." segments
RECURSIVE DropDots(_, _, _)
DropDots(segs, k, out) ==
    IF k > Len(segs) THEN out
    ELSE IF segs[k] = <<".">>
      THEN DropDots(segs, k + 1, IF k = Len(segs) THEN Append(out, <<>>) ELSE out)
    ELSE IF segs[k] = <<".", ".">>
      THEN LET up == IF out = <<>> THEN out ELSE SubSeq(out, 1, Len(out) - 1)
           IN  DropDots(segs, k + 1, IF k = Len(segs) THEN Append(up, <<>>) ELSE up)
    ELSE DropDots(segs, k + 1, Append(out, segs[k]))

\* a path starting with "/", normalised
NormalPath(path) ==
    LET segs == Split(Sub(path, 2, Len(path)), <<"/">>)
    IN  <<"/">> \o Join(DropDots(segs, 1, <<>>), <<"/">>)

\* an absolute http(s) URL in parts; ok is FALSE when it has no host
ParseAbsolute(u) ==
    LET parts(scheme, host, path, tail) ==
            [ok |-> scheme # <<>> /\ host # <<>>,
             scheme |-> scheme, host |-> host,
             path |-> IF path = <<>> THEN <<"/">> ELSE NormalPath(path),
             query |-> QueryOf(tail), fragment |-> FragmentOf(tail)]
        split(scheme, host, tail) == parts(scheme, host, PathOf(tail), tail)
        after(scheme, rest, hostEnd) ==
            split(scheme, Sub(rest, 1, hostEnd - 1), Sub(rest, hostEnd, Len(rest)))
        from(scheme, rest) == after(scheme, rest, FindChar(rest, 1, {"/", "?", "#"}))
        of(scheme) == from(scheme, Sub(u, Len(scheme) + 3, Len(u)))
    IN  of(SchemeOf(u))

Href(r) == r.scheme \o <<"/", "/">> \o r.host \o r.path \o r.query \o r.fragment

\* the directory of a path: the path up to its last "/"
DirOf(path) ==
    LET js == {j \in 1..Len(path) : path[j] = "/"}
    IN  Sub(path, 1, CHOOSE j \in js : \A k \in js : k <= j)

\* new URL(url, baseUrl): [ok, href], ok FALSE when the constructor throws.
\* Modelled: http and https URLs with a host, other schemes (kept as
\* written), and the relative forms //host/path, /path, ?query, #fragment
\* and path; leading and trailing whitespace goes.  Not modelled: ports,
\* user info, percent-encoding, backslashes.
NewUrl(url0, baseUrl) ==
    LET fail == [ok |-> FALSE, href |-> <<>>]
        good(r) == IF r.ok THEN [ok |-> TRUE, href |-> Href(r)] ELSE fail
        resolve(url, base) ==
            IF SchemeOf(url) # <<>> THEN good(ParseAbsolute(url))
            ELSE IF HasOtherScheme(url) THEN [ok |-> TRUE, href |-> url]
            ELSE IF ~base.ok THEN fail
            ELSE IF StartsWith(url, <<"/", "/">>) THEN good(ParseAbsolute(base.scheme \o url))
            ELSE IF StartsWith(url, <<"/">>)
              THEN good([base EXCEPT !.path = NormalPath(PathOf(url)),
                                     !.query = QueryOf(url), !.fragment = FragmentOf(url)])
            ELSE IF url = <<>> THEN good([base EXCEPT !.fragment = <<>>])
            ELSE IF StartsWith(url, <<"#">>) THEN good([base EXCEPT !.fragment = url])
            ELSE IF StartsWith(url, <<"?">>)
              THEN good([base EXCEPT !.query = QueryOf(url), !.fragment = FragmentOf(url)])
            ELSE good([base EXCEPT !.path = NormalPath(DirOf(base.path) \o PathOf(url)),
                                   !.query = QueryOf(url), !.fragment = FragmentOf(url)])
    IN  resolve(Trim(url0), ParseAbsolute(Trim(baseUrl)))

\* the base put in front of the reference, whatever the reference is
toAbsolute_mut(url, baseUrl) == baseUrl \o url

\* part_000 61-67
toAbsolute(url, baseUrl) ==
    LET href(r) == IF r.ok THEN r.href ELSE url
    IN  href(NewUrl(url, baseUrl))

\* el.setAttribute(name, value): the value of an attribute it has, else a
\* new last attribute
SetAttr(n, name, value) ==
    IF HasAttr(n.attrs, name)
      THEN [n EXCEPT !.attrs = [j \in 1..Len(n.attrs) |->
                                   IF n.attrs[j][1] = name THEN <<name, value>> ELSE n.attrs[j]]]
      ELSE [n EXCEPT !.attrs = Append(n.attrs, <<name, value>>)]

\* el.removeAttribute(name)
RemoveAttr(n, name) == [n EXCEPT !.attrs = SelectSeq(n.attrs, LAMBDA a : a[1] # name)]

SrcAttr == <<"s", "r", "c">>
SrcsetAttr == <<"s", "r", "c", "s", "e", "t">>
HrefAttr == <<"h", "r", "e", "f">>
TargetAttr == <<"t", "a", "r", "g", "e", "t">>
Blank == <<"_", "b", "l", "a", "n", "k">>

\* if (x) for a string attribute value: neither null nor empty
Truthy(value) == value # Null /\ value # <<>>

\* what the three loops of rewriteUrls do to one node
RewriteNode(n, baseUrl) ==
    CASE n.tag = "img" ->
            RemoveAttr(IF Truthy(GetAttr(n, SrcAttr))
                         THEN SetAttr(n, SrcAttr, toAbsolute(GetAttr(n, SrcAttr), baseUrl))
                         ELSE n,
                       SrcsetAttr)
      [] n.tag = "link" ->
            IF Truthy(GetAttr(n, HrefAttr))
              THEN SetAttr(n, HrefAttr, toAbsolute(GetAttr(n, HrefAttr), baseUrl))
              ELSE n
      [] n.tag = "a" ->
            SetAttr(IF Truthy(GetAttr(n, HrefAttr))
                      THEN SetAttr(n, HrefAttr, toAbsolute(GetAttr(n, HrefAttr), baseUrl))
                      ELSE n,
                    TargetAttr, Blank)
      [] OTHER -> n

rewriteUrls(doc, baseUrl) == [i \in 1..Len(doc) |-> RewriteNode(doc[i], baseUrl)]

(***************************************************************************)
(* 4.4 The document handed to the iframe (part_000 138-149)                *)
(***************************************************************************)
\* the text of the injected style sheet (part_000 140-145), which nothing in
\* the program reads again; it stands here as its first rule's selector
StyleText == <<".", "s", "m", "a", "r", "t", "r", "e", "a", "d", "-", "h", "i", "g", "h", "l", "i", "g", "h", "t">>

\* doc.head.appendChild(style): the style element becomes head's last child
InjectStyle(doc) ==
    LET h == HeadIndex(doc)
        e == SubtreeEnd(doc, h, h)
    IN  Sub(doc, 1, e) \o <<Elem("style", 1), Text(StyleText, 2)>> \o Sub(doc, e + 1, Len(doc))

\* doc.documentElement.outerHTML
OuterHTML(doc) ==
    LET h == HeadIndex(doc)
        b == BodyIndex(doc)
    IN  <<"<", "h", "t", "m", "l", ">">> \o <<"<", "h", "e", "a", "d", ">">> \o InnerHTML(doc, h) \o <<"<", "/", "h", "e", "a", "d", ">">>
          \o <<"<", "b", "o", "d", "y", ">">> \o InnerHTML(doc, b) \o <<"<", "/", "b", "o", "d", "y", ">">> \o <<"<", "/", "h", "t", "m", "l", ">">>

(***************************************************************************)
(* 4.6 Anchor Locator: handleScrollToQuote                                 *)
(***************************************************************************)
\* App.tsx 168: the wrapper the simple variant inserts
SimpleSpanOpen ==
    <<"<", "s", "p", "a", "n", " ", "c", "l", "a", "s", "s", "=", "\"", "b",
      "g", "-", "y", "e", "l", "l", "o", "w", "-", "2", "0", "0", " ", "t",
      "r", "a", "n", "s", "i", "t", "i", "o", "n", "-", "c", "o", "l", "o",
      "r", "s", " ", "d", "u", "r", "a", "t", "i", "o", "n", "-", "1", "0",
      "0", "0", "\"", ">">>
SimpleClass ==
    <<"b", "g", "-", "y", "e", "l", "l", "o", "w", "-", "2", "0", "0", " ",
      "t", "r", "a", "n", "s", "i", "t", "i", "o", "n", "-", "c", "o", "l",
      "o", "r", "s", " ", "d", "u", "r", "a", "t", "i", "o", "n", "-", "1",
      "0", "0", "0">>

\* part_000 279: the wrapper the iframe variant inserts
IframeSpanOpen ==
    <<"<", "s", "p", "a", "n", " ", "c", "l", "a", "s", "s", "=", "\"", "s",
      "m", "a", "r", "t", "r", "e", "a", "d", "-", "h", "i", "g", "h", "l",
      "i", "g", "h", "t", "\"", " ", "i", "d", "=", "\"", "t", "e", "m", "p",
      "-", "h", "i", "g", "h", "l", "i", "g", "h", "t", "\"", ">">>
IframeClass == <<"s", "m", "a", "r", "t", "r", "e", "a", "d", "-", "h", "i", "g", "h", "l", "i", "g", "h", "t">>
TempHighlight == <<"t", "e", "m", "p", "-", "h", "i", "g", "h", "l", "i", "g", "h", "t">>

SpanClose == <<"<", "/", "s", "p", "a", "n", ">">>

IsWrapper(n) ==
    /\ n.tag = "span"
    /\ GetAttr(n, <<"c", "l", "a", "s", "s">>) \in {SimpleClass, IframeClass}

\* the highlight wrappers in the live document
Wrappers(d) == {i \in 1..Len(d) : IsWrapper(d[i])}

NoTimer == <<>>
Timer(kind, el, html, text) == <<[kind |-> kind, el |-> el, html |-> html, text |-> text]>>

\* the identities of the nodes a change cut loose with no parent left:
\* the children of an element whose innerHTML is assigned
ChildNids(d, e) ==
    {d[j].nid : j \in {j \in (e + 1)..SubtreeEnd(d, e, e) : d[j].depth = d[e].depth + 1}}

\* what one call of handleScrollToQuote does to the document
Outcome(d, base, timer, alert, scroll, sel, cut) ==
    [dom |-> d, nextNid |-> base, timer |-> timer, alert |-> alert,
     scroll |-> scroll, sel |-> sel, cut |-> cut]

\* App.tsx 151-181
Paragraphs(d) == {i \in 1..Len(d) : d[i].tag = "p"}

\* the identity the next node gets once the nodes of d exist
FreshBase(d, base) ==
    LET used == {n \in {d[i].nid : i \in 1..Len(d)} : n >= base}
    IN  IF used = {} THEN base ELSE (CHOOSE n \in used : \A m \in used : m <= n) + 1

LocateSimple(d, base, anchor) ==
    LET cleanAnchor == Trim(anchor)
        hits == {i \in Paragraphs(d) : Includes(TextContent(d, i), cleanAnchor)}
    IN  IF hits = {} THEN Outcome(d, base, NoTimer, 1, 0, <<>>, {})
        ELSE LET p == CHOOSE i \in hits : \A j \in hits : i <= j
                 originalHTML == InnerHTML(d, p)
                 parts == Split(originalHTML, cleanAnchor)
                 d2 == IF Len(parts) > 1
                         THEN SetInnerHTML(d, p,
                                  Join(parts, SimpleSpanOpen \o cleanAnchor \o SpanClose), base)
                         ELSE d
             IN  Outcome(d2, FreshBase(d2, base),
                         Timer("restore", d[p].nid, originalHTML, <<>>),
                         0, d[p].nid, <<>>,
                         IF Len(parts) > 1 THEN ChildNids(d, p) ELSE {})

\* part_000 258-267: the first text node under body whose text holds the query
TextNodes(d) == {i \in 2..Len(d) : d[i].tag = "#text"}

FoundNode(d, cleanAnchor) ==
    LET hits == {i \in TextNodes(d) : Includes(d[i].text, cleanAnchor)}
    IN  IF hits = {} THEN 0 ELSE CHOOSE i \in hits : \A j \in hits : i <= j

\* part_000 269-298
HighlightInParent(d, base, foundNode, cleanAnchor) ==
    LET parent == ParentIndex(d, foundNode)
        d2 == SetInnerHTML(d, parent,
                  ReplaceFirst(InnerHTML(d, parent), cleanAnchor,
                               IframeSpanOpen \o cleanAnchor \o SpanClose),
                  base)
        highlightEl == GetElementById(d2, TempHighlight)
        el == IF highlightEl = 0 THEN 0 ELSE d2[highlightEl].nid
    IN  Outcome(d2, FreshBase(d2, base), Timer("unwrap", el, <<>>, cleanAnchor),
                0, el, <<>>, ChildNids(d, parent))

\* part_000 300-329: window.find(cleanAnchor), the browser's own search of
\* the rendered text.  It is taken to search the text of the document from
\* its start, case and spacing as written; the range it selects runs from
\* the text node of the first matched character to that of the last.
RootText(d) == TextContent(d, 1)

\* the number of characters of the text nodes before node i
CharsBefore(d, i) == Len(TextOf(Sub(d, 2, i - 1)))

\* the text node holding the character at position pos of the root's text
NodeAt(d, pos) ==
    CHOOSE i \in TextNodes(d) :
        /\ CharsBefore(d, i) < pos
        /\ pos <= CharsBefore(d, i) + Len(d[i].text)

FindRange(d, cleanAnchor) ==
    LET idx == IndexOf(RootText(d), cleanAnchor)
        last == idx + Len(cleanAnchor) - 1
        a == NodeAt(d, idx)
        b == NodeAt(d, last)
    IN  [startNode |-> a, startOffset |-> idx - CharsBefore(d, a) - 1,
         endNode |-> b, endOffset |-> last - CharsBefore(d, b)]

\* range.surroundContents(span) throws when the range cuts through an
\* element: here, when its two text nodes have different parents
CanSurround(d, r) ==
    \/ r.startNode = r.endNode
    \/ ParentIndex(d, r.startNode) = ParentIndex(d, r.endNode)

Deeper(nodes) == [i \in 1..Len(nodes) |-> [nodes[i] EXCEPT !.depth = @ + 1]]
Shallower(nodes) == [i \in 1..Len(nodes) |-> [nodes[i] EXCEPT !.depth = @ - 1]]

\* the document after range.surroundContents(span); the span gets nid base
Surround(d, r, base) ==
    LET a == r.startNode
        b == r.endNode
        dep == d[a].depth
        span == Live(ElemA("span", dep, <<<<(<<"c", "l", "a", "s", "s">>), IframeClass>>>>),
                     base, 0)
        piece(t, nid) == [nid |-> nid, tag |-> "#text", depth |-> dep + 1,
                          text |-> t, attrs |-> <<>>]
    IN  IF a = b
          THEN Sub(d, 1, a - 1)
               \o <<[d[a] EXCEPT !.text = Sub(@, 1, r.startOffset)]>>
               \o <<span, piece(Sub(d[a].text, r.startOffset + 1, r.endOffset), base + 1)>>
               \o <<piece(Sub(d[a].text, r.endOffset + 1, Len(d[a].text)), base + 2)>>
               \o Sub(d, a + 1, Len(d))
          ELSE Sub(d, 1, a - 1)
               \o <<[d[a] EXCEPT !.text = Sub(@, 1, r.startOffset)]>>
               \o <<span, piece(Sub(d[a].text, r.startOffset + 1, Len(d[a].text)), base + 1)>>
               \o Deeper(Sub(d, a + 1, b - 1))
               \o <<piece(Sub(d[b].text, 1, r.endOffset), base + 2)>>
               \o <<[d[b] EXCEPT !.text = Sub(@, r.endOffset + 1, Len(@))]>>
               \o Sub(d, b + 1, Len(d))

NativeSearch(d, base, cleanAnchor) ==
    IF ~Includes(RootText(d), cleanAnchor)
      THEN Outcome(d, base, NoTimer, 1, 0, <<>>, {})
    ELSE LET r == FindRange(d, cleanAnchor)
             sel == <<[startNid |-> d[r.startNode].nid, startOffset |-> r.startOffset,
                       endNid |-> d[r.endNode].nid, endOffset |-> r.endOffset]>>
         IN  IF CanSurround(d, r)
               THEN Outcome(Surround(d, r, base), base + 3,
                            Timer("unwrapKids", base, <<>>, <<>>), 0, base, sel, {})
               ELSE Outcome(d, base, NoTimer, 0, 0, sel, {})

\* part_000 246-331.  A call with no document, an empty anchor or an anchor
\* of spaces returns at once (249, 256).
LocateIframe(d, base, anchor) ==
    LET cleanAnchor == Trim(anchor)
        foundNode == FoundNode(d, cleanAnchor)
    IN  IF d = <<>> \/ anchor = <<>> \/ cleanAnchor = <<>>
          THEN Outcome(d, base, NoTimer, 0, 0, <<>>, {})
        ELSE IF foundNode # 0
          THEN HighlightInParent(d, base, foundNode, cleanAnchor)
          ELSE NativeSearch(d, base, cleanAnchor)

handleScrollToQuote(v, d, base, anchor) ==
    IF v = "simple" THEN LocateSimple(d, base, anchor) ELSE LocateIframe(d, base, anchor)

\* what the callback a timer holds does to the document when it fires
Fired(d, base, hang, cut) == [dom |-> d, nextNid |-> base, hung |-> hang, cut |-> cut]

\* App.tsx 174-176: p.innerHTML = originalHTML
FireRestore(t, d, base) ==
    LET i == IndexOfNid(d, t.el)
    IN  IF i = 0 THEN Fired(d, base, FALSE, {})
        ELSE LET d2 == SetInnerHTML(d, i, t.html, base)
             IN  Fired(d2, FreshBase(d2, base), FALSE, ChildNids(d, i))

\* part_000 286-294: the span gives way to a text node holding cleanAnchor
FireUnwrap(t, d, base) ==
    LET i == IndexOfNid(d, t.el)
    IN  IF t.el = 0 \/ i = 0 THEN Fired(d, base, FALSE, {})
        ELSE Fired(Sub(d, 1, i - 1)
                     \o <<[nid |-> base, tag |-> "#text", depth |-> d[i].depth,
                           text |-> t.text, attrs |-> <<>>]>>
                     \o Sub(d, SubtreeEnd(d, i, i) + 1, Len(d)),
                   base + 1, FALSE, {t.el})

\* part_000 316-320: the children of the span move out before it and the span
\* goes; with no parent left nothing moves and the loop never ends
FireUnwrapKids(t, d, base, orph) ==
    LET i == IndexOfNid(d, t.el)
    IN  IF i = 0 THEN Fired(d, base, t.el \in orph, {})
        ELSE Fired(Sub(d, 1, i - 1) \o Shallower(Children(d, i))
                     \o Sub(d, SubtreeEnd(d, i, i) + 1, Len(d)),
                   base, FALSE, {t.el})

FireTimer(t, d, base, orph) ==
    CASE t.kind = "restore" -> FireRestore(t, d, base)
      [] t.kind = "unwrap" -> FireUnwrap(t, d, base)
      [] t.kind = "unwrapKids" -> FireUnwrapKids(t, d, base, orph)

(***************************************************************************)
(* Rendered documents the locator runs on                                  *)
(***************************************************************************)
\* how many calls of handleScrollToQuote a behaviour makes
MaxInvocations == 2

\* characters of running text that bring an article to its length
FillLen == 200
Filler == Rep("x", FillLen)

\* App.tsx 510-520: one <p> with one text node for each line of
\* articleContent that is not blank
RenderArticle(articleContent) ==
    LET lines == Split(articleContent, <<"\n">>)
        kept == SelectSeq(lines, LAMBDA l : Trim(l) # <<>>)
    IN  <<Elem("div", 0)>> \o
        Concat([i \in 1..Len(kept) |-> <<Elem("p", 1), Text(kept[i], 2)>>])

\* the lines of one extracted block: a block's innerText has a line break
\* wherever the page had one inside the block
SampleLines ==
    << <<"a", "b", " ", "a", "b">>,
       <<"a", "&", "b", " ", "a", "m", "p">>,
       Filler >>

\* an article text as App.tsx 118 builds it
SampleArticle == Join(SampleLines, <<"\n">>)

\* a page with inline markup, as the iframe shows it
MarkupBody ==
    <<Elem("body", 0),
      Elem("p", 1), Text(<<"a">>, 2), Elem("b", 2), Text(<<"b">>, 3),
                    Text(<<"a", " ", "b", " ", "c">>, 2),
      Elem("p", 1), ElemA("img", 2, <<<<(<<"a", "l", "t">>), <<"a", "b">>>>>>),
                    Text(<<" ", "a", "b">>, 2),
      Elem("p", 1), Text(Filler, 2)>>

PlainBody == <<Elem("body", 0)>> \o Tail(RenderArticle(SampleArticle))

RenderedDocs(v) ==
    IF v = "simple" THEN {RenderArticle(SampleArticle)} ELSE {PlainBody, MarkupBody}

\* the quote anchors a key point may carry.  The blank anchor reaches the
\* simple variant only while the document holds no wrapper: there it matches
\* between any two characters of a paragraph's markup, and applied to markup
\* that holds wrappers it grows the document beyond what can be enumerated.
BlankAnchor == <<"\t">>
Anchors(v, d) ==
    { <<"a", "b">>, <<"b">>, <<"a", "m", "p">>, <<"a", "b", "a">>, <<"b", "a">>,
      <<"c">>, <<"z", "z">> }
    \cup (IF v = "iframe" \/ Wrappers(d) = {} THEN {BlankAnchor} ELSE {})

\* the first block (child element of the root) whose text holds the query
FirstBlock(d, q) ==
    LET hits == {i \in 2..Len(d) : /\ IsElement(d[i]) /\ d[i].depth = 1
                                   /\ Includes(TextContent(d, i), q)}
    IN  IF hits = {} THEN 0 ELSE CHOOSE i \in hits : \A j \in hits : i <= j

\* the App component as constructed (App.tsx 28-50, part_000 28-50)
SampleUrl ==
    <<"h", "t", "t", "p", "s", ":", "/", "/", "e", "x", "a", "m", "p", "l", "e", ".",
      "c", "o", "m", "/", "b", "l", "o", "g", "-", "p", "o", "s", "t">>

\* another address a user may type
OtherUrl ==
    <<"h", "t", "t", "p", "s", ":", "/", "/", "o", "t", "h", "e", "r", ".", "o", "r", "g", "/">>
Urls == {SampleUrl, OtherUrl}

Empty == [kind |-> "empty"]

\* no call of chatWithGemini was made yet
NoPrompt == [system |-> <<>>, turns |-> <<>>]

\* useState<{word: string, context: string} | null>(null)
NoData == [word |-> Null, context |-> Null]
NoEvent == [selection |-> Null, prevented |-> FALSE]

AppIdle ==
    /\ urlInput = SampleUrl /\ loadingState = "IDLE"
    /\ articleText = Empty /\ iframeHtml = Empty
    /\ analysis = <<>> /\ dictionary = FALSE
    /\ chatHistory = <<>> /\ chatInput = <<>>
    /\ selectedTextData = NoData /\ contextMenuPos = FALSE /\ selectedImage = FALSE
    /\ menuEvent = NoEvent
    /\ imageAnalysisResult = FALSE
    /\ loads = <<>> /\ requests = <<>> /\ handed = {} /\ prompt = NoPrompt

PipeIdle ==
    /\ ppc = "idle" /\ praw = <<>> /\ pdoc = <<>> /\ pbase = <<>>
    /\ proot = 0 /\ pblocks = <<>> /\ ptext = <<>> /\ fetches = <<>>

NoMount == [content |-> <<>>, count |-> 0, stale |-> 0, listeners |-> <<>>, fired |-> <<>>]

AnchorIdle ==
    /\ dom = <<>> /\ nextNid = 1 /\ timers = <<>> /\ alerts = 0 /\ scrolled = 0
    /\ selection = <<>> /\ orphans = {} /\ hung = FALSE /\ invCount = 0
    /\ anchorArg = <<>> /\ blk = 0 /\ before = <<>>
    /\ mounted = NoMount

\* the reader as the first completed load leaves it
FirstMount(v) ==
    [content |-> IF v = "simple" THEN SampleArticle ELSE <<>>, count |-> 1, stale |-> 0,
     listeners |-> IF v = "iframe" THEN <<1>> ELSE <<>>, fired |-> <<>>]

InitAnchor ==
    /\ variant \in Variants
    /\ PipeIdle
    /\ AppIdle
    /\ \E doc \in RenderedDocs(variant) :
          /\ dom = WithNids(doc, 1, 0)
          /\ nextNid = Len(doc) + 1
    /\ timers = <<>> /\ alerts = 0 /\ scrolled = 0 /\ selection = <<>>
    /\ orphans = {} /\ hung = FALSE /\ invCount = 0
    /\ anchorArg = <<>> /\ blk = 0 /\ before = <<>>
    /\ mounted = FirstMount(variant)

TimerEls(ts) == {ts[i].el : i \in 1..Len(ts)}

\* a key point is clicked: handleScrollToQuote(kp.quoteAnchor)
ScrollToQuote(anchor) ==
    /\ invCount < MaxInvocations
    /\ ~hung
    /\ \E out \in {handleScrollToQuote(variant, dom, nextNid, anchor)},
          b \in {FirstBlock(dom, anchor)} :
           /\ dom' = out.dom
           /\ nextNid' = out.nextNid
           /\ timers' = timers \o out.timer
           /\ alerts' = alerts + out.alert
           /\ scrolled' = IF out.scroll = 0 THEN scrolled ELSE out.scroll
           /\ selection' = IF out.sel = <<>> THEN selection ELSE out.sel
           /\ orphans' = (orphans \cup out.cut) \cap TimerEls(timers \o out.timer)
           /\ blk' = IF b = 0 THEN 0 ELSE dom[b].nid
           /\ before' = IF b = 0 THEN <<>> ELSE TextContent(dom, b)
    /\ invCount' = invCount + 1
    /\ anchorArg' = anchor
    /\ UNCHANGED <<variant, hung, mounted, pipeVars, appVars>>

\* 3000 ms after its call the oldest pending callback runs
TimerFires ==
    /\ timers # <<>>
    /\ ~hung
    /\ \E out \in {FireTimer(Head(timers), dom, nextNid, orphans)} :
           /\ dom' = out.dom
           /\ nextNid' = out.nextNid
           /\ hung' = out.hung
           /\ timers' = IF out.hung THEN timers ELSE Tail(timers)
           /\ orphans' = (orphans \cup out.cut) \cap TimerEls(Tail(timers))
           /\ mounted' = [mounted EXCEPT
                             !.stale = IF out.hung \/ @ = 0 THEN @ ELSE @ - 1]
    /\ UNCHANGED <<variant, alerts, scrolled, selection, invCount, anchorArg,
                   blk, before, pipeVars, appVars>>

NextAnchor ==
    \/ \E anchor \in Anchors(variant, dom) : ScrollToQuote(anchor)
    \/ TimerFires

SpecAnchor == InitAnchor /\ [][NextAnchor]_vars

(***************************************************************************)
(* A later load puts another document in the reader                        *)
(***************************************************************************)
\* how many documents a behaviour mounts, the first one included
MaxMounts == 2

\* a second article: its first line differs from the sample's, its second
\* line is blank, its third is the sample's
OtherArticle == Join(<< <<"z", " ", "a", "b">>, <<>>, Filler >>, <<"\n">>)
Articles == {SampleArticle, OtherArticle}

\* App.tsx 510-513: the key of a paragraph is the place of its line among
\* the lines of articleContent; blank lines render nothing
ParagraphKeys(articleContent) ==
    LET lines == Split(articleContent, <<"\n">>)
    IN  SelectSeq([i \in 1..Len(lines) |-> i], LAMBDA i : Trim(lines[i]) # <<>>)

\* the <p> elements of the reader, in document order
ParagraphSeq(d) ==
    SelectSeq([i \in 1..Len(d) |-> i], LAMBDA i : d[i].tag = "p" /\ d[i].depth = 1)

\* App.tsx 60, 510-520: the article is rendered after the placeholder was:
\* every paragraph is a new element
Remount(d, base, articleContent) ==
    LET nodes == Tail(RenderArticle(articleContent))
    IN  [dom |-> <<d[1]>> \o WithNids(nodes, base, 0), nextNid |-> base + Len(nodes)]

\* App.tsx 124, 132, 510-520: articleContent goes from one text to another
\* with no empty render between.  The <p> of a key that is rendered again
\* stays the same element: with the same line nothing of it is touched, with
\* another line its text is set (the value of its text node if that is its
\* only child, its textContent otherwise).
Reconcile(d, base, old, new) ==
    LET oldLines == Split(old, <<"\n">>)
        newLines == Split(new, <<"\n">>)
        oldKeys == ParagraphKeys(old)
        ps == ParagraphSeq(d)
        PlaceOf(k) ==
            IF \E j \in 1..Len(oldKeys) : oldKeys[j] = k /\ j <= Len(ps)
              THEN CHOOSE j \in 1..Len(oldKeys) : oldKeys[j] = k
              ELSE 0
        NewText(k) == Live(Text(newLines[k], 2), base + 2 * k - 1, 0)
        Kept(k, e) ==
            IF oldLines[k] = newLines[k] THEN Sub(d, e, SubtreeEnd(d, e, e))
            ELSE IF SubtreeEnd(d, e, e) = e + 1 /\ d[e + 1].tag = "#text"
              THEN <<d[e], [d[e + 1] EXCEPT !.text = newLines[k]]>>
              ELSE <<d[e], NewText(k)>>
        Para(k) ==
            LET j == PlaceOf(k)
            IN  IF j = 0 THEN <<Live(Elem("p", 1), base + 2 * k - 2, 0), NewText(k)>>
                ELSE Kept(k, ps[j])
        keys == ParagraphKeys(new)
    IN  [dom |-> <<d[1]>> \o Concat([n \in 1..Len(keys) |-> Para(keys[n])]),
         nextNid |-> base + 2 * Len(newLines)]

\* a document.open() that keeps the listeners of the document
OpenDocument_mut(listeners) == listeners

\* part_000 204: document.open() leaves no event listener on the document
OpenDocument(listeners) == <<>>

\* the simple variant shows the text of a later load (App.tsx 124), or the
\* message of its failure (App.tsx 132); kept tells that no empty render
\* (App.tsx 60) came between the two texts
MountArticle(articleContent, kept) ==
    /\ variant = "simple"
    /\ mounted.count < MaxMounts
    /\ ~hung
    /\ \E out \in {IF kept THEN Reconcile(dom, nextNid, mounted.content, articleContent)
                             ELSE Remount(dom, nextNid, articleContent)} :
           /\ dom' = out.dom
           /\ nextNid' = out.nextNid
    /\ mounted' = [mounted EXCEPT !.content = articleContent, !.count = @ + 1,
                                  !.stale = Len(timers)]
    /\ UNCHANGED <<variant, timers, alerts, scrolled, selection, orphans, hung,
                   invCount, anchorArg, blk, before, pipeVars, appVars>>

\* part_000 198-243: the effect of a changed iframeHtml writes the document
\* anew and attaches the listeners of this mount
MountIframe(doc) ==
    /\ variant = "iframe"
    /\ mounted.count < MaxMounts
    /\ ~hung
    /\ dom' = WithNids(doc, nextNid, 0)
    /\ nextNid' = nextNid + Len(doc)
    /\ selection' = <<>>
    /\ mounted' = [mounted EXCEPT !.count = @ + 1, !.stale = Len(timers),
                                  !.listeners = Append(OpenDocument(@), mounted.count + 1)]
    /\ UNCHANGED <<variant, timers, alerts, scrolled, orphans, hung,
                   invCount, anchorArg, blk, before, pipeVars, appVars>>

\* a right click in the embedded document: every contextmenu listener on
\* the document runs (part_000 210-235, 240)
EmbeddedContextMenu ==
    /\ variant = "iframe"
    /\ ~hung
    /\ mounted' = [mounted EXCEPT !.fired = mounted.listeners]
    /\ UNCHANGED <<variant, dom, nextNid, timers, alerts, scrolled, selection, orphans,
                   hung, invCount, anchorArg, blk, before, pipeVars, appVars>>

NextMount ==
    \/ \E anchor \in Anchors(variant, dom) : ScrollToQuote(anchor)
    \/ TimerFires
    \/ EmbeddedContextMenu
    \/ \E a \in Articles, kept \in BOOLEAN : MountArticle(a, kept)
    \/ \E doc \in RenderedDocs("iframe") : MountIframe(doc)

SpecMount == InitAnchor /\ [][NextMount]_vars

\* a callback of an earlier mount runs to its end
StaleTimerFires == mounted'.count = mounted.count /\ mounted'.stale < mounted.stale

\* C22: a load does not cancel the pending highlight-removal timers, and a
\* timer started on an earlier document leaves the content of the document
\* now mounted as it is when it fires.
C22_StaleTimerHarmless ==
    [][/\ (mounted'.count = mounted.count + 1) => timers' = timers
       /\ StaleTimerFires => InnerHTML(dom', 1) = InnerHTML(dom, 1)]_vars

\* C23: in the iframe variant, after any number of mounts the embedded
\* document carries exactly one contextmenu listener, the one of the
\* current mount, and a contextmenu event is handled by that listener alone.
C23_OneListener ==
    [][variant = "iframe" =>
         /\ mounted'.listeners = <<mounted'.count>>
         /\ mounted'.fired # mounted.fired => mounted'.fired = <<mounted.count>>]_vars

\* a contextmenu event was handled after a second document was mounted
C23_Witness == variant = "iframe" /\ mounted.count = 2 /\ mounted.fired = <<2>>

\* C7: a query that occurs verbatim inside one block of the rendered document
\* is found (no failure is reported), and once the removal timer of the
\* invocation has fired the block's text content is what it was before.
C7_TextRestored ==
    (invCount = 1 /\ blk # 0 /\ timers = <<>>) =>
        /\ alerts = 0
        /\ IndexOfNid(dom, blk) # 0
        /\ TextContent(dom, IndexOfNid(dom, blk)) = before

\* C8: once all pending removal timers have fired, whatever the invocations
\* were and however close together, the document holds no highlight wrapper.
C8_NoWrapperLeft == (timers = <<>>) => (Wrappers(dom) = {})

\* C9: an invocation that highlights adds exactly one wrapper, however often
\* the query occurs in the matched element or in the document.
C9_OneWrapper ==
    [][(invCount' = invCount + 1 /\ Cardinality(Wrappers(dom')) > Cardinality(Wrappers(dom)))
          => Cardinality(Wrappers(dom')) = Cardinality(Wrappers(dom)) + 1]_vars

\* the query occurs nowhere in the text of the document
OccursNowhere(d, q) == ~Includes(RootText(d), q)

\* C10: an invocation whose query occurs nowhere in the rendered document
\* reports not-found, inserts no wrapper and schedules no timer.
C10_NotFoundReported ==
    [][(invCount' = invCount + 1 /\ OccursNowhere(dom, anchorArg'))
          => /\ alerts' = alerts + 1
             /\ Wrappers(dom') = Wrappers(dom)
             /\ timers' = timers]_vars

\* C20: an invocation whose trimmed query has characters and occurs
\* verbatim in the text of one block of the rendered document leaves a
\* highlight wrapper around the query text and has scrolled to it; it does
\* not end without a highlight, a scroll or a reported failure.
C20_FoundIsHighlighted ==
    [][(/\ invCount' = invCount + 1
        /\ Trim(anchorArg') # <<>>
        /\ FirstBlock(dom, Trim(anchorArg')) # 0) =>
          /\ \E w \in Wrappers(dom') : TextContent(dom', w) = Trim(anchorArg')
          /\ scrolled' # 0
          /\ Wrappers(dom') # Wrappers(dom) \/ scrolled' # scrolled \/ alerts' = alerts + 1]_vars

\* a call of handleScrollToQuote in the iframe variant with a query that
\* has characters
IframeCall == variant = "iframe" /\ invCount' = invCount + 1 /\ Trim(anchorArg') # <<>>

\* the call went to the native search: no text node holds the query
NativeCall == IframeCall /\ FoundNode(dom, Trim(anchorArg')) = 0

\* the native search finds the query, in a range that can or cannot be wrapped
WrappableMatch ==
    /\ Includes(RootText(dom), Trim(anchorArg'))
    /\ CanSurround(dom, FindRange(dom, Trim(anchorArg')))
UnwrappableMatch ==
    /\ Includes(RootText(dom), Trim(anchorArg'))
    /\ ~CanSurround(dom, FindRange(dom, Trim(anchorArg')))

\* the oldest callback runs, and it is one the native search scheduled
NativeTimerFires ==
    /\ invCount' = invCount /\ timers # <<>> /\ Head(timers).kind = "unwrapKids"

\* C21: in the iframe variant the native search runs only when no text node
\* holds the query; when its match can be wrapped a highlight span is
\* inserted with a removal timer, and when that timer fires the span leaves
\* the document; when the match cannot be wrapped the native selection
\* stays, no timer is scheduled and no failure is reported.
C21_NativeSearch ==
    [][/\ (IframeCall /\ (selection' # selection \/ alerts' # alerts))
            => FoundNode(dom, Trim(anchorArg')) = 0
       /\ (NativeCall /\ WrappableMatch)
            => /\ Cardinality(Wrappers(dom')) = Cardinality(Wrappers(dom)) + 1
               /\ Len(timers') = Len(timers) + 1
       /\ NativeTimerFires
            => /\ ~hung'
               /\ timers' = Tail(timers)
               /\ IndexOfNid(dom', Head(timers).el) = 0
       /\ (NativeCall /\ UnwrappableMatch)
            => /\ selection' # <<>>
               /\ timers' = timers
               /\ alerts' = alerts
               /\ Wrappers(dom') = Wrappers(dom)]_vars

(***************************************************************************)
(* Fetched documents, as the HTML parser hands them to the pipeline        *)
(***************************************************************************)
\* largest number of nodes under body in an enumerated document
MaxNodes == 3


GenTags == {"script", "iframe", "object", "embed", "nav", "p"}

\* the last node of s at depth d (the parent of a node appended at depth d + 1)
LastAtDepth(s, d) ==
    LET js == {j \in 1..Len(s) : s[j].depth = d}
    IN  s[CHOOSE j \in js : \A k \in js : k <= j]

\* may node n follow the nodes s in document order?
CanAppend(s, n) ==
    IF s = <<>> THEN n.depth = 1
    ELSE /\ n.depth \in 1..(s[Len(s)].depth + 1)
         /\ ~(n.tag = "#text" /\ s[Len(s)].tag = "#text" /\ s[Len(s)].depth = n.depth)
         /\ n.depth > 1 =>
               LET par == LastAtDepth(s, n.depth - 1)
               IN  /\ IsElement(par)
                   /\ par.tag \notin VoidTags
                   /\ par.tag \in RawTextTags => n.tag = "#text"

GenNodes ==
    {Elem(t, d) : t \in GenTags, d \in 1..MaxNodes} \cup {Text(<<"x">>, d) : d \in 1..MaxNodes}

RECURSIVE GenContents(_)
GenContents(k) ==
    IF k = 0 THEN {<<>>}
    ELSE LET shorter == GenContents(k - 1)
         IN  shorter \cup {Append(s, n) : s \in {t \in shorter : Len(t) = k - 1},
                                          n \in GenNodes}

\* parser.parseFromString(rawHtml, 'text/html'): always one head and one body
Document(headContent, bodyContent) ==
    <<Elem("head", 0)>> \o headContent \o <<Elem("body", 0)>> \o bodyContent

WellFormed(content) ==
    \A i \in 1..Len(content) : CanAppend(SubSeq(content, 1, i - 1), content[i])

GenDocs == {Document(<<>>, c) : c \in {c \in GenContents(MaxNodes) : WellFormed(c)}}

(***************************************************************************)
(* The synchronous part of handleLoadArticle, one statement group a step   *)
(***************************************************************************)
\* documents for the noise filter: an article whose first block has a text
\* of n characters between the padding, and whose second block is kept
BlockDoc(tag, n, pad) ==
    Document(<<>>,
        <<Elem("article", 1),
          Elem(tag, 2), Text(pad \o Rep("x", n) \o pad, 3),
          Elem("p", 2), Text(Rep("y", NoiseThreshold + 1), 3)>>)

BlockDocs ==
    {BlockDoc(tag, n, pad) :
        tag \in {"p", "li", "h2", "blockquote", "div"},
        n \in (NoiseThreshold - 1)..(NoiseThreshold + 1),
        pad \in {<<>>, <<" ", "\n">>}}

\* documents for the choice of the content root: two elements, the second
\* after or inside the first, under a body with or without a class
RootCandidates ==
    {<<"article", <<>>>>, <<"main", <<>>>>, <<"div", <<>>>>,
     <<"div", <<<<ClassAttr, <<"x", " ">> \o Content \o <<"\n", "y">>>>>>>>,
     <<"div", <<<<ClassAttr, Content \o <<"s">>>>>>>>,
     <<"section", <<<<IdAttr, Content>>>>>>,
     <<"div", <<<<ClassAttr, PostBody>>>>>>}

RootDoc(bodyAttrs, c1, c2, d2) ==
    <<Elem("head", 0), ElemA("body", 0, bodyAttrs),
      ElemA(c1[1], 1, c1[2]), Text(<<"a">>, 2),
      ElemA(c2[1], d2, c2[2]), Text(<<"b">>, d2 + 1)>>

RootDocs ==
    {RootDoc(bodyAttrs, c1, c2, d2) :
        bodyAttrs \in {<<>>, <<<<ClassAttr, Content>>>>},
        c1 \in RootCandidates, c2 \in RootCandidates, d2 \in 1..2}

\* attribute values for the URL rewriter: root-relative, protocol-relative,
\* fragment, path-relative, query, absolute, another scheme, empty, padded
\* with spaces, and one that no base makes a URL
UrlSamples ==
    {<<"/", "l", "o", "g", "o", ".", "p", "n", "g">>,
     <<"/", "/", "c", "d", "n", ".", "x", ".", "c", "o", "m", "/", "a", ".", "j", "s">>,
     <<"#", "t", "o", "p">>,
     <<"i", "m", "g", "/", "a", ".", "p", "n", "g">>,
     <<".", ".", "/", "a", ".", "p", "n", "g">>,
     <<"?", "q", "=", "1">>,
     <<"h", "t", "t", "p", "s", ":", "/", "/", "o", "t", "h", "e", "r", ".", "o", "r", "g", "/", "a", "/", ".", "/", "b", "/", ".", ".", "/", "c", "?", "x", "#", "y">>,
     <<"m", "a", "i", "l", "t", "o", ":", "m", "e">>,
     <<>>,
     <<" ", "/", "a", " ">>,
     <<"h", "t", "t", "p", ":", "/", "/">>}

\* a document with every element the rewriter visits, and with or without
\* a picture element whose source carries a srcset
UrlDoc(u, withPicture) ==
    Document(
        <<ElemA("link", 1, <<<<HrefAttr, u>>>>)>>,
        <<ElemA("img", 1, <<<<SrcsetAttr, <<"a", " ", "2", "x">>>>, <<SrcAttr, u>>>>),
          ElemA("a", 1, <<<<HrefAttr, u>>>>), Text(<<"t">>, 2),
          Elem("a", 1), Text(<<"n">>, 2)>>
        \o IF withPicture
             THEN <<Elem("picture", 1),
                    ElemA("source", 2, <<<<SrcsetAttr, <<"b", " ", "2", "x">>>>>>),
                    ElemA("img", 2, <<<<SrcAttr, u>>>>)>>
             ELSE <<>>)

UrlDocs == {UrlDoc(u, withPicture) : u \in UrlSamples, withPicture \in BOOLEAN}

PipeDocs == GenDocs \cup BlockDocs \cup RootDocs \cup UrlDocs

\* the markup of the specification's example load
SampleText ==
    <<"H", "e", "l", "l", "o", " ", "w", "o", "r", "l", "d", ".", " ", "T", "h", "e", " ",
    "s", "k", "y", " ", "i", "s", " ", "b", "l", "u", "e", " ", "t", "o", "d", "a", "y",
    ".">>
SampleMarkup ==
    <<"<", "a", "r", "t", "i", "c", "l", "e", ">", "<", "p", ">">> \o SampleText
      \o <<"<", "/", "p", ">", "<", "/", "a", "r", "t", "i", "c", "l", "e", ">">>

\* fetched markup: the example, the same article with a text of the least
\* accepted length, and markup shorter than MinHtmlLength
RawPages ==
    {SampleMarkup,
     <<"<", "a", "r", "t", "i", "c", "l", "e", ">", "<", "p", ">">> \o Rep("x", MinTextSimple)
       \o <<"<", "/", "p", ">", "<", "/", "a", "r", "t", "i", "c", "l", "e", ">">>,
     <<"<", "p", ">", "h", "i", "<", "/", "p", ">">>}

\* the addresses the user may have typed: one that parses as a URL, one
\* that does not
PipeBases ==
    {<<"h", "t", "t", "p", "s", ":", "/", "/", "e", "x", "a", "m", "p", "l", "e", ".",
       "c", "o", "m", "/", "p", "o", "s", "t">>,
     <<"e", "x", "a", "m", "p", "l", "e">>}

InitPipe ==
    /\ variant \in Variants
    /\ \/ ppc = "fetched" /\ praw \in RawPages /\ pdoc = <<>>
       \/ ppc = "parsed" /\ praw = Null /\ pdoc \in PipeDocs
    /\ pbase \in PipeBases
    /\ proot = 0
    /\ pblocks = <<>>
    /\ ptext = <<>>
    /\ fetches = <<>>
    /\ AnchorIdle
    /\ AppIdle

\* App.tsx 92-97, part_000 125-130: the length check, then the parse.  The
\* markup of RawPages has no html, head or body tag: all of it goes to body.
ParseStep ==
    /\ ppc = "fetched"
    /\ IF praw = <<>> \/ Len(praw) < MinHtmlLength
         THEN ppc' = "ContentTooShort" /\ UNCHANGED pdoc
         ELSE ppc' = "parsed" /\ pdoc' = Document(<<>>, ParseHtml(praw))
    /\ UNCHANGED <<variant, fetches, praw, pbase, proot, pblocks, ptext, anchorVars, appVars>>

\* App.tsx 99-103, part_000 132-133
SanitizeStep ==
    /\ ppc = "parsed"
    /\ pdoc' = Sanitize(variant, pdoc)
    /\ ppc' = "sanitized"
    /\ UNCHANGED <<variant, fetches, praw, pbase, proot, pblocks, ptext, anchorVars, appVars>>

\* part_000 136
RewriteStep ==
    /\ variant = "iframe"
    /\ ppc = "sanitized"
    /\ pdoc' = rewriteUrls(pdoc, pbase)
    /\ ppc' = "rewritten"
    /\ UNCHANGED <<variant, fetches, praw, pbase, proot, pblocks, ptext, anchorVars, appVars>>

\* part_000 139-146
StyleStep ==
    /\ ppc = "rewritten"
    /\ pdoc' = InjectStyle(pdoc)
    /\ ppc' = "styled"
    /\ UNCHANGED <<variant, fetches, praw, pbase, proot, pblocks, ptext, anchorVars, appVars>>

\* App.tsx 106-111, part_000 153-156
RootStep ==
    /\ ppc = (IF variant = "simple" THEN "sanitized" ELSE "styled")
    /\ proot' = ContentRoot(variant, pdoc)
    /\ ppc' = "rooted"
    /\ UNCHANGED <<variant, fetches, praw, pdoc, pbase, pblocks, ptext, anchorVars, appVars>>

\* App.tsx 114-118, part_000 158-160
ExtractStep ==
    /\ ppc = "rooted"
    /\ \E blocks \in {IF variant = "simple" THEN TextBlocks(pdoc, proot) ELSE <<>>} :
          /\ pblocks' = blocks
          /\ ptext' = IF variant = "simple"
                        THEN Join(blocks, <<"\n", "\n">>)
                        ELSE Trim(CollapseWs(TextContent(pdoc, proot)))
    /\ ppc' = "extracted"
    /\ UNCHANGED <<variant, fetches, praw, pdoc, pbase, proot, anchorVars, appVars>>

\* App.tsx 120-124, part_000 162-164: the throw, or the set state call
CheckStep ==
    /\ ppc = "extracted"
    /\ ppc' = IF TooShort(variant, ptext) THEN "ExtractionTooShort" ELSE "stored"
    /\ UNCHANGED <<variant, fetches, praw, pdoc, pbase, proot, pblocks, ptext, anchorVars, appVars>>

NextPipe ==
    \/ ParseStep
    \/ SanitizeStep
    \/ RewriteStep
    \/ StyleStep
    \/ RootStep
    \/ ExtractStep
    \/ CheckStep

SpecPipe == InitPipe /\ [][NextPipe]_vars

(***************************************************************************)
(* The two fetches of a load (App.tsx 65-90, part_000 101-123)             *)
(***************************************************************************)
\* the outcomes of the first fetch (App.tsx 66-82): the proxy's JSON with
\* contents, a network error, a body that is no JSON, JSON without contents
PrimaryFailures == {"NetworkError", "InvalidJson", "NoContents"}
\* and of the second (App.tsx 85-89): a body, a status that is not ok, a network error
FallbackFailures == {"FallbackNotOk", "NetworkError"}

Fetch(proxy, outcome, body) == [proxy |-> proxy, outcome |-> outcome, body |-> body]

\* what the primary proxy may answer: nothing (the fetch rejects), a body
\* that is no JSON, JSON with contents, with empty contents, with none
PrimaryResponses ==
    {[kind |-> "error", contents |-> Null], [kind |-> "text", contents |-> Null]}
    \cup {[kind |-> "json", contents |-> c] : c \in RawPages \cup {<<>>, Null}}

\* and the fallback proxy: nothing, a status that is not ok, a body
FallbackResponses ==
    {[kind |-> "error", ok |-> FALSE, body |-> <<>>]}
    \cup {[kind |-> "http", ok |-> ok, body |-> b] : ok \in BOOLEAN, b \in RawPages \cup {<<>>}}

\* App.tsx 68-82: how the first attempt ends
PrimaryOutcome(resp) ==
    CASE resp.kind = "error" -> "NetworkError"
      [] resp.kind = "text" -> "InvalidJson"
      [] resp.kind = "json" /\ resp.contents \in {Null, <<>>} -> "NoContents"
      [] OTHER -> "contents"

\* a handler that asks the fallback proxy whatever the first attempt gave
NeedsFallback_mut(outcome) == TRUE

\* App.tsx 83: the catch block of the first attempt runs when it threw
NeedsFallback(outcome) == outcome # "contents"

InitFetch ==
    /\ variant \in Variants
    /\ ppc = "primary" /\ praw = <<>> /\ pdoc = <<>>
    /\ pbase \in PipeBases
    /\ proot = 0 /\ pblocks = <<>> /\ ptext = <<>>
    /\ fetches = <<Fetch("primary", "pending", <<>>)>>
    /\ AnchorIdle
    /\ AppIdle

\* App.tsx 66-87: the first fetch settles; when the attempt threw, the
\* second fetch is made
PrimarySettles(resp) ==
    /\ ppc = "primary"
    /\ \E o \in {PrimaryOutcome(resp)} :
          /\ praw' = IF o = "contents" THEN resp.contents ELSE praw
          /\ ppc' = IF NeedsFallback(o) THEN "fallback" ELSE "fetched"
          /\ fetches' = <<Fetch("primary", o, IF o = "contents" THEN resp.contents ELSE <<>>)>>
                          \o (IF NeedsFallback(o)
                                THEN <<Fetch("fallback", "pending", <<>>)>> ELSE <<>>)
    /\ UNCHANGED <<variant, pdoc, pbase, proot, pblocks, ptext, anchorVars, appVars>>

\* App.tsx 87-89: the second fetch settles
FallbackSettles(resp) ==
    /\ ppc = "fallback"
    /\ IF resp.kind = "error" \/ ~resp.ok
         THEN /\ ppc' = "FallbackFailed"
              /\ fetches' = [fetches EXCEPT ![Len(fetches)].outcome =
                                 IF resp.kind = "error" THEN "NetworkError"
                                                        ELSE "FallbackNotOk"]
              /\ UNCHANGED praw
         ELSE /\ ppc' = "fetched"
              /\ praw' = resp.body
              /\ fetches' = [fetches EXCEPT ![Len(fetches)] =
                                 Fetch("fallback", "body", resp.body)]
    /\ UNCHANGED <<variant, pdoc, pbase, proot, pblocks, ptext, anchorVars, appVars>>

NextFetch ==
    \/ \E resp \in PrimaryResponses : PrimarySettles(resp)
    \/ \E resp \in FallbackResponses : FallbackSettles(resp)
    \/ NextPipe

SpecFetch == InitFetch /\ [][NextFetch]_vars

\* C29: a load asks the fallback proxy if and only if its primary attempt
\* failed, makes no more than two fetches, and keeps the contents the
\* primary proxy gave: they are never replaced by the fallback's.
C29_FallbackIffPrimaryFails ==
    fetches # <<>> =>
        /\ Len(fetches) <= 2
        /\ fetches[1].proxy = "primary"
        /\ Len(fetches) = 2 <=> fetches[1].outcome \in PrimaryFailures
        /\ Len(fetches) = 2 => fetches[2].proxy = "fallback"
        /\ fetches[1].outcome = "contents" => praw = fetches[1].body

\* the primary proxy answered with empty contents, the fallback gave the
\* page, and the load stored its text
C29_Witness ==
    /\ Len(fetches) = 2
    /\ fetches[1].outcome = "NoContents" /\ fetches[2].outcome = "body"
    /\ ppc = "stored"

ExecTags == {"script", "iframe", "object", "embed"}

HasTag(nodes, tags) == \E i \in 1..Len(nodes) : nodes[i].tag \in tags

\* C1: in both variants, once the sanitizing step of a load has run, the
\* parsed document holds no script, iframe, object or embed element.
C1_NoExecutableElements ==
    (ppc \notin {"fetched", "ContentTooShort", "parsed"}) => ~HasTag(pdoc, ExecTags)

\* the trimmed texts of the block elements below the root, in document order
BlockTextsUnder(doc, root) ==
    LET last == SubtreeEnd(doc, root, root)
        at == SelectSeq([k \in 1..(last - root) |-> root + k],
                        LAMBDA i : doc[i].tag \in BlockTags)
    IN  [k \in 1..Len(at) |-> Trim(TextContent(doc, at[k]))]

\* C11: in the simple variant the blocks kept for the article text are the
\* blocks whose trimmed text has 40 characters or more: a block is dropped
\* if and only if its trimmed text is shorter than 40 characters.
C11_DroppedIffBelowThreshold ==
    (variant = "simple" /\ ppc = "extracted") =>
        pblocks = SelectSeq(BlockTextsUnder(pdoc, proot),
                            LAMBDA t : ~(Len(t) < NoiseThreshold))

\* the synchronous part of the load has ended: with a throw, or at the set
\* state call
PipeEnded == ppc \in {"ContentTooShort", "ExtractionTooShort", "stored"}

\* C12 as the specification states it: in the simple variant the load of
\* the example markup succeeds and the article text is the paragraph's text.
C12_ExampleSucceeds ==
    (variant = "simple" /\ praw = SampleMarkup /\ PipeEnded) =>
        ppc = "stored" /\ pblocks = <<SampleText>> /\ ptext = SampleText

\* C12, amended: in the simple variant the load of the example markup
\* passes the length check of the markup and ends with the extracted text
\* too short: the paragraph's text is shorter than the noise threshold, no
\* block is kept and the article text is empty.
C12_ExampleFails ==
    (variant = "simple" /\ praw = SampleMarkup /\ PipeEnded) =>
        ppc = "ExtractionTooShort" /\ pblocks = <<>> /\ ptext = <<>>

C12_Witness ==
    /\ variant = "simple" /\ praw = SampleMarkup /\ PipeEnded
    /\ pdoc = Document(<<>>, <<Elem("article", 1), Elem("p", 2), Text(SampleText, 3)>>)
    /\ Len(SampleText) < NoiseThreshold

\* the selectors of the content root as the specification lists them
ListedSelectors ==
    IF variant = "simple"
      THEN <<TagSel("article"), TagSel("main"), ClassSel(Content), IdSel(Content),
             ClassSel(PostBody)>>
      ELSE <<TagSel("article"), TagSel("main"), ClassSel(Content)>>

MatchesOf(sel) == {j \in 1..Len(pdoc) : Matches(pdoc[j], sel)}

\* the root is the first element matching the first listed selector that
\* matches anything, the body when no selector matches
RootByPriority ==
    /\ \A k \in 1..Len(ListedSelectors) :
          (MatchesOf(ListedSelectors[k]) # {}
             /\ \A m \in 1..(k - 1) : MatchesOf(ListedSelectors[m]) = {})
          => /\ proot \in MatchesOf(ListedSelectors[k])
             /\ \A j \in MatchesOf(ListedSelectors[k]) : proot <= j
    /\ (\A k \in 1..Len(ListedSelectors) : MatchesOf(ListedSelectors[k]) = {})
          => pdoc[proot].tag = "body"

\* C13 as the specification states it: the content root is chosen by the
\* fixed priority of the selectors, and it is the body if and only if none
\* of the selectors matches.
C13_BodyIffNoMatch ==
    (ppc = "rooted") =>
        /\ RootByPriority
        /\ pdoc[proot].tag = "body"
              <=> \A k \in 1..Len(ListedSelectors) : MatchesOf(ListedSelectors[k]) = {}

\* C13, amended: the content root is chosen by the fixed priority of the
\* selectors; it is the body when none of the selectors matches, and also
\* when the body itself is the first match of the winning selector.
C13_RootByPriority ==
    (ppc = "rooted") =>
        /\ RootByPriority
        /\ pdoc[proot].tag = "body"
              <=> \/ \A k \in 1..Len(ListedSelectors) : MatchesOf(ListedSelectors[k]) = {}
                  \/ \E k \in 1..Len(ListedSelectors) :
                        /\ BodyIndex(pdoc) \in MatchesOf(ListedSelectors[k])
                        /\ \A j \in MatchesOf(ListedSelectors[k]) : BodyIndex(pdoc) <= j
                        /\ \A m \in 1..(k - 1) : MatchesOf(ListedSelectors[m]) = {}

\* a main element comes first in the document and the article after it is
\* the root
C13_Witness ==
    /\ ppc = "rooted"
    /\ \E i \in 1..Len(pdoc) :
          /\ pdoc[i].tag = "main" /\ i < proot
          /\ pdoc[proot].tag = "article"

\* the attribute of an element that holds a URL the rewriter is to resolve
UrlAttrOf(n) ==
    CASE n.tag = "img" -> SrcAttr
      [] n.tag \in {"link", "a"} -> HrefAttr
      [] OTHER -> Null

\* the standard resolution of a reference against a base, the reference
\* itself when there is none
Resolved(u, base) ==
    LET pick(r) == IF r.ok THEN r.href ELSE u
    IN  pick(NewUrl(u, base))

RewriteDone == ppc = "sanitized" /\ ppc' = "rewritten"

\* C14: rewriteUrls leaves every img src, link href and a href equal to the
\* standard resolution of its original value against the base URL, and
\* equal to the original value when the resolution fails.
C14_AttributesResolved ==
    [][RewriteDone =>
          \A i \in 1..Len(pdoc) :
              (UrlAttrOf(pdoc[i]) # Null /\ GetAttr(pdoc[i], UrlAttrOf(pdoc[i])) # Null)
              => GetAttr(pdoc'[i], UrlAttrOf(pdoc[i]))
                   = Resolved(GetAttr(pdoc[i], UrlAttrOf(pdoc[i])), pbase)]_vars

\* C15: rewriteUrls applied to its own output with the same base URL
\* changes nothing: no attribute of any element differs after the second
\* run.
C15_RewriteIdempotent == [][RewriteDone => rewriteUrls(pdoc', pbase') = pdoc']_vars

\* the rewriter has run and has resolved the reference /logo.png, which a
\* second run meets in its absolute form
C15_Witness ==
    /\ ppc = "rewritten"
    /\ \E i \in 1..Len(pdoc) :
          /\ pdoc[i].tag = "a"
          /\ GetAttr(pdoc[i], HrefAttr)
                = <<"h", "t", "t", "p", "s", ":", "/", "/", "e", "x", "a", "m", "p", "l", "e", ".",
                    "c", "o", "m", "/", "l", "o", "g", "o", ".", "p", "n", "g">>

\* the rewriter has run
Rewritten == variant = "iframe" /\ ppc \in {"rewritten", "styled", "rooted", "extracted",
                                              "ExtractionTooShort", "stored"}

\* C16: after rewriteUrls no element of the document has a srcset
\* attribute, and every a element, with or without an href, has the target
\* _blank.
C16_NoSrcsetAllBlank ==
    Rewritten =>
        \A i \in 1..Len(pdoc) :
            /\ GetAttr(pdoc[i], SrcsetAttr) = Null
            /\ pdoc[i].tag = "a" => GetAttr(pdoc[i], TargetAttr) = Blank

(***************************************************************************)
(* The App component: its events and handlers                              *)
(***************************************************************************)
\* how many calls of handleLoadArticle a behaviour makes
MaxLoads == 2
\* how many chat, definition, image and manual-analysis calls it makes
MaxRequests == 1

\* what a string state holds, with the load that wrote it
Extracted(l, text) == [kind |-> "extracted", load |-> l, text |-> text]
ErrorMessage(l, reason) == [kind |-> "error", load |-> l, reason |-> reason]
Rendered(l, html) == [kind |-> "document", load |-> l, html |-> html]

\* the pages a site may serve.  The text of the first is one character
\* short of the variant's minimum, that of the second has the minimum
\* length, and the markup of the third is shorter than MinHtmlLength.
PageWithText(n) ==
    Document(<<>>,
        <<Elem("script", 1), Text(<<"s">>, 2),
          ElemA("a", 1, <<<<HrefAttr, <<"/", "x">>>>>>), Text(<<"y">>, 2),
          Elem("article", 1), Elem("p", 2), Text(Rep("x", n), 3)>>)
TinyPage == Document(<<>>, <<Elem("p", 1), Text(<<"h", "i">>, 2)>>)

Pages(v) == {PageWithText(MinText(v) - 1), PageWithText(MinText(v)), TinyPage}

\* App.tsx 92-127, part_000 125-167: what the handler does with the markup
\* it fetched, up to the call of analyzeArticle.  `fail` is the message of
\* the Error thrown, "" when none is; html is what setIframeHtml got at 149.
ProcessHtml(v, page, baseUrl) ==
    LET outcome(rawHtml, html, text) ==
            IF rawHtml = <<>> \/ Len(rawHtml) < MinHtmlLength
              THEN [fail |-> "ContentTooShort",
                    html |-> <<>>, text |-> <<>>, extracted |-> <<>>]
            ELSE IF TooShort(v, text)
              THEN [fail |-> "ExtractionTooShort",
                    html |-> html, text |-> <<>>, extracted |-> <<text>>]
            ELSE [fail |-> "", html |-> html, text |-> text, extracted |-> <<text>>]
        from(shown) == outcome(OuterHTML(page), OuterHTML(shown), Extract(v, shown))
        cleaned(doc) ==
            from(IF v = "iframe" THEN InjectStyle(rewriteUrls(doc, baseUrl)) ELSE doc)
    IN  cleaned(Sanitize(v, page))

\* ProcessHtml, tabulated
Processed ==
    [v \in Variants |-> [page \in Pages(v) |-> [u \in Urls |-> ProcessHtml(v, page, u)]]]

\* a call of handleLoadArticle: where it waits, the urlInput it closed over,
\* and, for the record, what extraction gave it and what became of it
NewLoad(url) ==
    [pc |-> "primary", url |-> url, extracted |-> <<>>, stored |-> FALSE,
     asked |-> FALSE, outcome |-> "pending"]

\* a catch block that displays nothing
AfterCatch_mut(cur, l, reason) == cur

\* App.tsx 130-135, part_000 170-179: catch, then finally.  The message goes
\* to articleContent in the simple variant and to iframeHtml in the other.
AfterCatch(cur, l, reason) == ErrorMessage(l, reason)

Caught(l, reason, more) ==
    /\ articleText' = IF variant = "simple"
                        THEN AfterCatch(articleText, l, reason) ELSE articleText
    /\ iframeHtml' = IF variant = "iframe"
                       THEN AfterCatch(iframeHtml, l, reason) ELSE iframeHtml
    /\ loadingState' = "IDLE"
    /\ loads' = [loads EXCEPT ![l] = [more EXCEPT !.pc = "done", !.outcome = reason]]
    /\ UNCHANGED <<analysis, handed, prompt>>

\* the markup arrived: the handler runs on to its next await or to its end
GotHtml(l, page) ==
    \E r \in {Processed[variant][page][loads[l].url]} :
      \E me \in {[loads[l] EXCEPT !.extracted = r.extracted]} :
        IF r.fail # ""
          THEN Caught(l, r.fail, me)
          ELSE /\ articleText' = Extracted(l, r.text)
               /\ iframeHtml' = IF variant = "iframe" THEN Rendered(l, r.html) ELSE iframeHtml
               /\ handed' = handed \cup {Extracted(l, r.text)}
               /\ loads' = [loads EXCEPT ![l] =
                               [me EXCEPT !.pc = "analysis", !.stored = TRUE, !.asked = TRUE]]
               /\ UNCHANGED <<loadingState, analysis, prompt>>

uiVars == <<urlInput, dictionary, chatHistory, chatInput, selectedTextData,
            contextMenuPos, selectedImage, imageAnalysisResult, requests>>

\* the Load button (App.tsx 302-307, never disabled): handleLoadArticle up
\* to its first await.  The click also reaches the root's onClick (287).
StartLoad ==
    /\ Len(loads) < MaxLoads
    /\ urlInput # <<>>
    /\ loadingState' = "ANALYZING"
    /\ analysis' = <<>>
    /\ chatHistory' = <<>>
    /\ articleText' = Empty
    /\ iframeHtml' = Empty
    /\ dictionary' = IF variant = "iframe" THEN FALSE ELSE dictionary
    /\ contextMenuPos' = FALSE
    /\ loads' = Append(loads, NewLoad(urlInput))
    /\ UNCHANGED <<urlInput, chatInput, selectedTextData, selectedImage,
                   imageAnalysisResult, requests, handed, prompt>>
    /\ UNCHANGED <<variant, pipeVars, anchorVars, menuEvent>>

\* the first fetch settles
PrimaryResponds(l) ==
    /\ l \in 1..Len(loads) /\ loads[l].pc = "primary"
    /\ \/ \E page \in Pages(variant) : GotHtml(l, page)
       \/ \E f \in PrimaryFailures :
             /\ loads' = [loads EXCEPT ![l].pc = "fallback"]
             /\ UNCHANGED <<loadingState, articleText, iframeHtml, analysis, handed, prompt>>
    /\ UNCHANGED uiVars
    /\ UNCHANGED <<variant, pipeVars, anchorVars, menuEvent>>

\* the second fetch settles
FallbackResponds(l) ==
    /\ l \in 1..Len(loads) /\ loads[l].pc = "fallback"
    /\ \/ \E page \in Pages(variant) : GotHtml(l, page)
       \/ \E f \in FallbackFailures : Caught(l, f, loads[l])
    /\ UNCHANGED uiVars
    /\ UNCHANGED <<variant, pipeVars, anchorVars, menuEvent>>

\* analyzeArticle settles (App.tsx 127-135)
AnalysisResponds(l) ==
    /\ l \in 1..Len(loads) /\ loads[l].pc = "analysis"
    /\ \/ /\ analysis' = <<Extracted(l, loads[l].extracted[1])>>
          /\ loadingState' = "IDLE"
          /\ loads' = [loads EXCEPT ![l].pc = "done", ![l].outcome = "analysed"]
          /\ UNCHANGED <<articleText, iframeHtml, handed, prompt>>
       \/ Caught(l, "AnalysisFailure", loads[l])
    /\ UNCHANGED uiVars
    /\ UNCHANGED <<variant, pipeVars, anchorVars, menuEvent>>

\* a call that awaits a collaborator: its class, whether it still waits, and
\* the article text it closed over
Request(class, text) == [class |-> class, pc |-> "pending", text |-> text]

\* a call that has settled leaves nothing behind
Settled == [class |-> "none", pc |-> "done", text |-> Empty]

loadVars == <<articleText, iframeHtml, loads>>

\* "Analyze" (App.tsx 351-356, shown while there is an article, no analysis
\* and no analysis running): handleManualAnalyze up to its await
ManualAnalyze ==
    /\ Len(requests) < MaxRequests
    /\ articleText # Empty /\ analysis = <<>> /\ loadingState # "ANALYZING"
    /\ loadingState' = "ANALYZING"
    /\ handed' = handed \cup {articleText}
    /\ prompt' = prompt
    /\ requests' = Append(requests, Request("manual", articleText))
    /\ contextMenuPos' = FALSE
    /\ UNCHANGED <<urlInput, analysis, dictionary, chatHistory, chatInput,
                   selectedTextData, selectedImage, imageAnalysisResult, loadVars>>
    /\ UNCHANGED <<variant, pipeVars, anchorVars, menuEvent>>

\* part_000 810: articleContext.substring(0, 10000)
MaxArticleChars == 10000

\* part_000 813-815: one line for each message of the history
TurnLine(msg) ==
    (IF msg.role = "user" THEN <<"U", "s", "e", "r">> ELSE <<"A", "I">>)
        \o <<":", " ">> \o msg.text \o <<"\n">>
TurnLines(history) == Concat([i \in 1..Len(history) |-> TurnLine(history[i])])

\* part_000 803-818: the prompt chatWithGemini sends.  system holds the
\* article the opening paragraph quotes, <<>> when articleContext is empty;
\* turns is the text that follows the opening paragraph.
chatWithGemini(history, newMessage, articleContext) ==
    [system |-> IF articleContext = Empty THEN <<>>
                ELSE IF articleContext.kind = "extracted"
                  THEN <<[articleContext EXCEPT
                            !.text = IF Len(@) > MaxArticleChars
                                       THEN Sub(@, 1, MaxArticleChars) ELSE @]>>
                  ELSE <<articleContext>>,
     turns |-> TurnLines(history)
                 \o <<"U", "s", "e", "r", ":", " ">> \o newMessage
                 \o <<"\n", "A", "I", ":">>]

\* the texts the user may type into the chat field (App.tsx 427)
ChatTexts == {<<"h", "i">>, <<" ">>}

TypeChat(t) ==
    /\ t # chatInput
    /\ chatInput' = t
    /\ UNCHANGED <<urlInput, loadingState, analysis, dictionary, chatHistory,
                   selectedTextData, contextMenuPos, selectedImage, imageAnalysisResult,
                   requests, handed, prompt, loadVars>>
    /\ UNCHANGED <<variant, pipeVars, anchorVars, menuEvent>>

\* Enter in the chat field (App.tsx 429, whatever loadingState is):
\* handleSendMessage up to its await
SendMessage ==
    /\ Len(requests) < MaxRequests
    /\ Trim(chatInput) # <<>>
    /\ chatHistory' = Append(chatHistory, [role |-> "user", text |-> chatInput])
    /\ chatInput' = <<>>
    /\ loadingState' = "CHATTING"
    /\ handed' = handed \cup {articleText}
    /\ prompt' = chatWithGemini(Append(chatHistory, [role |-> "user", text |-> chatInput]),
                                chatInput, articleText)
    /\ requests' = Append(requests, Request("chat", articleText))
    /\ UNCHANGED <<urlInput, analysis, dictionary, selectedTextData, contextMenuPos,
                   selectedImage, imageAnalysisResult, loadVars>>
    /\ UNCHANGED <<variant, pipeVars, anchorVars, menuEvent>>

\* is the displayed article there to be right-clicked?  (App.tsx 510-515:
\* the paragraphs of articleContent; part_000 198-243: the listener is
\* attached once iframeHtml is written)
ArticleShown == IF variant = "simple" THEN articleText # Empty ELSE iframeHtml # Empty

\* part_000 222: the longest context kept whole
MaxContext == 200
Ellipsis == <<".", ".", ".">>

\* App.tsx 193, part_000 220-224: the context made of the text of the
\* selection's parent element
ContextOf(v, parentText) ==
    IF v = "iframe" /\ Len(parentText) > MaxContext
      THEN Sub(parentText, 1, MaxContext) \o Ellipsis
      ELSE parentText

\* a selection taken for empty whatever it holds but the empty string
BlankSelection_mut(sel) == sel = <<>>

\* App.tsx 186, part_000 213-215: no selection, or nothing but whitespace
BlankSelection(sel) == Trim(sel) = <<>>

\* a right click in the article (App.tsx 183-197, part_000 210-235) with the
\* selection sel, inside an element whose text is parentText
ContextMenu(sel, parentText) ==
    /\ ArticleShown
    /\ menuEvent' = [selection |-> sel, prevented |-> TRUE]
    /\ IF BlankSelection(sel)
         THEN /\ contextMenuPos' = FALSE
              /\ UNCHANGED selectedTextData
         ELSE /\ selectedTextData' = [word |-> Trim(sel),
                                       context |-> ContextOf(variant, parentText)]
              /\ contextMenuPos' = TRUE
    /\ <<selectedTextData', contextMenuPos', menuEvent'>>
          # <<selectedTextData, contextMenuPos, menuEvent>>
    /\ UNCHANGED <<urlInput, loadingState, analysis, dictionary, chatHistory, chatInput,
                   selectedImage, imageAnalysisResult, requests, handed, prompt, loadVars>>
    /\ UNCHANGED <<variant, pipeVars, anchorVars>>

\* a click elsewhere (App.tsx 287, part_000 238)
ClickAway ==
    /\ contextMenuPos
    /\ contextMenuPos' = FALSE
    /\ UNCHANGED <<urlInput, loadingState, analysis, dictionary, chatHistory, chatInput,
                   selectedTextData, selectedImage, imageAnalysisResult, requests,
                   handed, prompt, loadVars>>
    /\ UNCHANGED <<variant, pipeVars, anchorVars, menuEvent>>

\* "Explain" in the open menu (App.tsx 571-577): handleDefineWord up to its await
DefineWord ==
    /\ Len(requests) < MaxRequests
    /\ contextMenuPos
    /\ contextMenuPos' = FALSE
    /\ IF selectedTextData = NoData
         THEN UNCHANGED <<loadingState, requests>>
         ELSE /\ loadingState' = "DEFINING"
              /\ requests' = Append(requests, Request("define", selectedTextData))
    /\ UNCHANGED <<urlInput, analysis, dictionary, chatHistory, chatInput,
                   selectedTextData, selectedImage, imageAnalysisResult, handed, prompt, loadVars>>
    /\ UNCHANGED <<variant, pipeVars, anchorVars, menuEvent>>

\* the popup's close button (App.tsx 539)
CloseDictionary ==
    /\ dictionary
    /\ dictionary' = FALSE
    /\ contextMenuPos' = FALSE
    /\ UNCHANGED <<urlInput, loadingState, analysis, chatHistory, chatInput,
                   selectedTextData, selectedImage, imageAnalysisResult, requests,
                   handed, prompt, loadVars>>
    /\ UNCHANGED <<variant, pipeVars, anchorVars, menuEvent>>

\* an image file is chosen and read (App.tsx 260-270)
ImageUpload ==
    /\ ~selectedImage \/ imageAnalysisResult
    /\ selectedImage' = TRUE
    /\ imageAnalysisResult' = FALSE
    /\ UNCHANGED <<urlInput, loadingState, analysis, dictionary, chatHistory, chatInput,
                   selectedTextData, contextMenuPos, requests, handed, prompt, loadVars>>
    /\ UNCHANGED <<variant, pipeVars, anchorVars, menuEvent>>

\* "Analyze Image" (App.tsx 472-476, disabled while IMAGE_ANALYZING):
\* handleAnalyzeImage up to its await
AnalyzeImage ==
    /\ Len(requests) < MaxRequests
    /\ loadingState # "IMAGE_ANALYZING"
    /\ selectedImage
    /\ loadingState' = "IMAGE_ANALYZING"
    /\ requests' = Append(requests, Request("image", Empty))
    /\ contextMenuPos' = FALSE
    /\ UNCHANGED <<urlInput, analysis, dictionary, chatHistory, chatInput,
                   selectedTextData, selectedImage, imageAnalysisResult, handed, prompt, loadVars>>
    /\ UNCHANGED <<variant, pipeVars, anchorVars, menuEvent>>

\* the collaborator of request r settles: the rest of the try block when it
\* fulfils, the catch block when it rejects, then finally
RequestResponds(r, fulfilled) ==
    /\ r \in 1..Len(requests) /\ requests[r].pc = "pending"
    /\ requests' = [requests EXCEPT ![r] = Settled]
    /\ loadingState' = "IDLE"
    /\ analysis' = IF requests[r].class = "manual" /\ fulfilled
                     THEN <<requests[r].text>> ELSE analysis
    /\ alerts' = IF requests[r].class = "manual" /\ ~fulfilled THEN alerts + 1 ELSE alerts
    /\ chatHistory' = IF requests[r].class = "chat" /\ fulfilled
                        THEN Append(chatHistory, [role |-> "model", text |-> <<"o", "k">>])
                        ELSE chatHistory
    /\ dictionary' = IF requests[r].class = "define" /\ fulfilled THEN TRUE ELSE dictionary
    /\ imageAnalysisResult' = IF requests[r].class = "image" /\ fulfilled
                                THEN TRUE ELSE imageAnalysisResult
    /\ UNCHANGED <<urlInput, chatInput, selectedTextData, contextMenuPos, selectedImage,
                   handed, prompt, loadVars>>
    /\ UNCHANGED <<variant, pipeVars, dom, nextNid, timers, scrolled, selection, orphans,
                   hung, invCount, anchorArg, blk, before, mounted, menuEvent>>

Init ==
    /\ variant \in Variants
    /\ PipeIdle
    /\ AnchorIdle
    /\ AppIdle

Next ==
    \/ StartLoad
    \/ \E l \in 1..MaxLoads : PrimaryResponds(l)
    \/ \E l \in 1..MaxLoads : FallbackResponds(l)
    \/ \E l \in 1..MaxLoads : AnalysisResponds(l)
    \/ ManualAnalyze
    \/ \E t \in ChatTexts : TypeChat(t)
    \/ SendMessage
    \/ ContextMenu(<<"a", "b">>, <<"a", "b", " ", "c">>)
    \/ ClickAway
    \/ DefineWord
    \/ CloseDictionary
    \/ ImageUpload
    \/ AnalyzeImage
    \/ \E r \in 1..MaxRequests, fulfilled \in BOOLEAN : RequestResponds(r, fulfilled)

Spec == Init /\ [][Next]_vars

\* the address field (App.tsx 295-299): setUrlInput(e.target.value)
TypeUrl(u) ==
    /\ u # urlInput
    /\ urlInput' = u
    /\ UNCHANGED <<loadingState, analysis, dictionary, chatHistory, chatInput,
                   selectedTextData, contextMenuPos, selectedImage, imageAnalysisResult,
                   requests, handed, prompt, loadVars>>
    /\ UNCHANGED <<variant, pipeVars, anchorVars, menuEvent>>

\* loads of several addresses, one started while another is pending
NextLoads ==
    \/ \E u \in Urls : TypeUrl(u)
    \/ StartLoad
    \/ \E l \in 1..MaxLoads : PrimaryResponds(l)
    \/ \E l \in 1..MaxLoads : FallbackResponds(l)
    \/ \E l \in 1..MaxLoads : AnalysisResponds(l)

SpecLoads == Init /\ [][NextLoads]_vars

(***************************************************************************)
(* The chat over a conversation already under way                          *)
(***************************************************************************)
UserSays(t) == [role |-> "user", text |-> t]
ModelSays(t) == [role |-> "model", text |-> t]

\* the conversations a send may continue
ChatHistories ==
    { <<>>,
      <<UserSays(<<"h", "i">>), ModelSays(<<"o", "k">>)>>,
      <<UserSays(<<"h", "i">>), ModelSays(<<"o", "k">>),
        UserSays(<<"w", "h", "y">>), ModelSays(<<"h", "i">>)>> }

InitChat ==
    /\ variant \in Variants
    /\ PipeIdle
    /\ AnchorIdle
    /\ urlInput = SampleUrl /\ loadingState = "IDLE"
    /\ articleText \in {Empty, Extracted(1, Rep("x", MinText(variant)))}
    /\ iframeHtml = Empty
    /\ analysis = <<>> /\ dictionary = FALSE
    /\ chatHistory \in ChatHistories
    /\ chatInput = <<>>
    /\ selectedTextData = NoData /\ contextMenuPos = FALSE /\ selectedImage = FALSE
    /\ menuEvent = NoEvent
    /\ imageAnalysisResult = FALSE
    /\ loads = <<>> /\ requests = <<>> /\ handed = {} /\ prompt = NoPrompt

NextChat ==
    \/ \E t \in ChatTexts \cup {<<"w", "h", "y">>} : TypeChat(t)
    \/ SendMessage
    \/ \E r \in 1..MaxRequests, fulfilled \in BOOLEAN : RequestResponds(r, fulfilled)

SpecChat == InitChat /\ [][NextChat]_vars

\* every pending call settles: a fetch and a model call end in a response or
\* in an error
FairSpec ==
    /\ Spec
    /\ \A l \in 1..MaxLoads :
          /\ WF_vars(PrimaryResponds(l))
          /\ WF_vars(FallbackResponds(l))
          /\ WF_vars(AnalysisResponds(l))
    /\ \A r \in 1..MaxRequests : WF_vars(\E fulfilled \in BOOLEAN : RequestResponds(r, fulfilled))

(***************************************************************************)
(* The context menu over a displayed article                               *)
(***************************************************************************)
\* the selections a right click may come with: a word, the word with
\* whitespace around it, none, and whitespace only
MenuSelections ==
    {<<"a", "b">>, <<" ", "a", "b", "\n">>, <<>>, <<" ">>, <<"\n", "\t">>}

\* the text of the element the selection is in: short, of MaxContext
\* characters, and one character longer
MenuParentTexts ==
    {<<"a", "b", " ", "c">>,
     <<"a", "b">> \o Rep("x", MaxContext - 2),
     <<"a", "b">> \o Rep("x", MaxContext - 1)}

\* the component after one load that succeeded and was analysed
Loaded(r) ==
    /\ urlInput = SampleUrl /\ loadingState = "IDLE"
    /\ articleText = Extracted(1, r.text)
    /\ iframeHtml = IF variant = "iframe" THEN Rendered(1, r.html) ELSE Empty
    /\ analysis = <<Extracted(1, r.text)>> /\ dictionary = FALSE
    /\ chatHistory = <<>> /\ chatInput = <<>>
    /\ selectedTextData = NoData /\ contextMenuPos = FALSE /\ selectedImage = FALSE
    /\ menuEvent = NoEvent
    /\ imageAnalysisResult = FALSE
    /\ loads = <<[pc |-> "done", url |-> SampleUrl, extracted |-> r.extracted,
                  stored |-> TRUE, asked |-> TRUE, outcome |-> "analysed"]>>
    /\ requests = <<>> /\ handed = {Extracted(1, r.text)} /\ prompt = NoPrompt

InitMenu ==
    /\ variant \in Variants
    /\ PipeIdle
    /\ AnchorIdle
    /\ Loaded(Processed[variant][PageWithText(MinText(variant))][SampleUrl])

NextMenu ==
    \/ \E sel \in MenuSelections, parentText \in MenuParentTexts :
          ContextMenu(sel, parentText)
    \/ ClickAway
    \/ DefineWord
    \/ CloseDictionary
    \/ \E r \in 1..MaxRequests, fulfilled \in BOOLEAN : RequestResponds(r, fulfilled)

SpecMenu == InitMenu /\ [][NextMenu]_vars

(***************************************************************************)
(* Claims about the App component                                          *)
(***************************************************************************)
\* C2: every article text handed to the analysis or the chat collaborator
\* is empty or is text extracted from a fetched document, of at least the
\* variant's minimum length; it is never an error message or a placeholder.
C2_OnlyExtractedText ==
    \A h \in handed :
        \/ h = Empty
        \/ h.kind = "extracted" /\ Len(h.text) >= MinText(variant)

\* C3: in the iframe variant, whenever the displayed document and the
\* article text are both non-empty they were written by the same load.
C3_SameFetch ==
    (variant = "iframe" /\ iframeHtml # Empty /\ articleText # Empty)
        => iframeHtml.load = articleText.load

\* the calls of a class that still await their collaborator
InFlight(class) ==
    IF class = "load"
      THEN Cardinality({l \in 1..Len(loads) : loads[l].pc # "done"})
      ELSE Cardinality({r \in 1..Len(requests) :
                          requests[r].class = class /\ requests[r].pc = "pending"})

\* C4: at most one request of each action class (article load, definition
\* lookup, chat, image analysis) is in flight at any time.
C4_OneInFlight == \A class \in {"load", "define", "chat", "image"} : InFlight(class) <= 1

\* every call of handleLoadArticle made so far has run to its end
AllLoadsDone == loads # <<>> /\ \A l \in 1..Len(loads) : loads[l].pc = "done"

\* C24: once every load has completed, what is displayed and the article
\* text are those of the load requested last, whatever the order in which
\* the loads completed.
C24_LastRequestWins ==
    AllLoadsDone =>
        /\ articleText # Empty => loads[articleText.load].url = loads[Len(loads)].url
        /\ iframeHtml # Empty => loads[iframeHtml.load].url = loads[Len(loads)].url

\* C25: whenever an analysis result is shown it was computed from the
\* article text now loaded: no result of an earlier or overlapping load is
\* shown over the state of a later load.
C25_AnalysisOfCurrentText == analysis # <<>> => analysis[1] = articleText

\* C26: loadingState is IDLE only when no asynchronous action (article
\* load, manual analysis, definition lookup, chat, image analysis) is still
\* in flight.
C26_IdleMeansNothingPending ==
    loadingState = "IDLE" =>
        \A class \in {"load", "manual", "define", "chat", "image"} : InFlight(class) = 0

\* the analysis call a load made after storing its article rejects
AnalysisFails(l) ==
    /\ l <= Len(loads) /\ loads[l].pc = "analysis"
    /\ loads'[l].outcome = "AnalysisFailure"

\* C27: when the analysis call at the end of a load fails, the article the
\* load extracted stays displayed and its text stays the article text.
C27_ArticleSurvivesAnalysisFailure ==
    [][\A l \in 1..MaxLoads :
          AnalysisFails(l) => articleText' = articleText /\ iframeHtml' = iframeHtml]_vars

\* C28: under any interleaving of chat sends, model replies and article
\* loads the chat history alternates, starting with a user message: the
\* odd places hold user messages and every model message comes right after
\* a user message.
C28_HistoryAlternates ==
    \A i \in 1..Len(chatHistory) :
        chatHistory[i].role = IF i % 2 = 1 THEN "user" ELSE "model"

\* handleSendMessage has run up to its await
Sent ==
    /\ Len(chatHistory') = Len(chatHistory) + 1
    /\ chatHistory'[Len(chatHistory')].role = "user"

\* C30: the prompt chatWithGemini builds for a send holds every message of
\* the conversation once, in order, the message just sent being the last
\* of them and not there a second time.
C30_EachMessageOnce ==
    [][Sent => prompt'.turns = TurnLines(chatHistory') \o <<"A", "I", ":">>]_vars

\* is the article, or a failure placeholder, on display?
Displayed == IF variant = "simple" THEN articleText # Empty ELSE iframeHtml # Empty

C6_TooShortFails ==
    \A l \in 1..Len(loads) :
        loads[l].extracted # <<>> =>
            IF Len(loads[l].extracted[1]) < (IF variant = "simple" THEN 200 ELSE 100)
              THEN /\ loads[l].outcome = "ExtractionTooShort"
                   /\ ~loads[l].stored /\ ~loads[l].asked
                   /\ articleText # Extracted(l, loads[l].extracted[1])
              ELSE loads[l].stored /\ loads[l].asked

\* one load extracted a text one character short and failed, another a
\* text of the minimum length and had it analysed
C6_Witness ==
    \E l, m \in 1..Len(loads) :
        /\ loads[l].extracted # <<>> /\ Len(loads[l].extracted[1]) = MinText(variant) - 1
        /\ loads[l].outcome = "ExtractionTooShort"
        /\ loads[m].extracted # <<>> /\ Len(loads[m].extracted[1]) = MinText(variant)
        /\ loads[m].asked

\* C17: in the iframe variant the context captured by a context-menu event,
\* and the context of every definition lookup in flight, has at most 200
\* characters.
C17_ContextAtMost200 ==
    (variant = "iframe") =>
        /\ selectedTextData # NoData => Len(selectedTextData.context) <= MaxContext
        /\ \A r \in 1..Len(requests) :
              requests[r].class = "define" => Len(requests[r].text.context) <= MaxContext

\* C18: the lookup action and a click outside the menu clear the captured
\* selection state: after either, the menu position is null and so is the
\* {word, context} pair.
C18_SelectionCleared ==
    [][(DefineWord \/ ClickAway) =>
          (contextMenuPos' = FALSE /\ selectedTextData' = NoData)]_vars

\* a context-menu event arrived whose selection is empty or whitespace only
BlankEvent == menuEvent' # menuEvent /\ Trim(menuEvent'.selection) = <<>>

\* C19: a context-menu event with an empty or whitespace-only selection
\* suppresses the default menu, leaves the action menu closed, records no
\* word or context and starts no lookup.
C19_BlankSelectionIgnored ==
    [][BlankEvent =>
          /\ menuEvent'.prevented
          /\ contextMenuPos' = FALSE
          /\ selectedTextData' = selectedTextData
          /\ requests' = requests
          /\ loadingState' = loadingState
          /\ dictionary' = dictionary]_vars

\* a whitespace-only selection arrived while a pair from an earlier event
\* was held: the action menu is closed and the pair is the earlier one
C19_Witness ==
    /\ menuEvent.selection \in {<<" ">>, <<"\n", "\t">>}
    /\ menuEvent.prevented
    /\ selectedTextData # NoData
    /\ ~contextMenuPos

====
